---- MODULE Spec2Model ----
(***************************************************************************)
(* The type-hint engine of sipgen/type_hints.c: the annotation parser      *)
(* (parseTypeHint, parseTypeHintNode), the name resolver (lookupType and   *)
(* its helpers), the union normaliser (flatten_unions) and the renderer    *)
(* (pyiTypeHint, pyiTypeHintNode, prClassRef, prEnumRef, isDefined).       *)
(*                                                                         *)
(* C strings are sequences of one-character strings that end with NUL;     *)
(* a char* is an index into such a sequence.  Nodes live in a heap that is *)
(* a sequence of records; a node pointer is an index, 0 is NULL.           *)
(*                                                                         *)
(* The Python signals of siplib/qtlib.c are a second specification,        *)
(* QtSpec, over the variables pySigList and call.                          *)
(***************************************************************************)
EXTENDS Integers, Sequences, FiniteSets, TLC

VARIABLES
    world,      \* which symbol table (sipSpec) the run works on
    mod,        \* the module being written (moduleDef *mod)
    status,     \* typeHintDef.status of every annotation
    root,       \* typeHintDef.root of every annotation
    raw,        \* typeHintDef.raw_hint of every annotation, NUL included
    heap,       \* every typeHintNodeDef allocated so far
    stack,      \* the C call stack of the parser, innermost frame last
    ret,        \* the value the frame that returned last handed back
    defined,    \* the ifaceFileList of what the module has defined so far
    written,    \* how many classes and mapped types pyiModule has written
    req,        \* the pyiTypeHint call in progress, if any
    output,     \* the text the rendering call made last has written
    last,       \* the rendering call that has written it
    parses,     \* how often each annotation's raw string has been parsed
    copies,     \* the trees copyTypeHintNode has returned, per annotation
    pySigList,  \* sipWrapper.pySigList of every transmitter, head first
    call        \* the call of the signal API made last and what it found

vars == <<world, mod, status, root, raw, heap, stack, ret, defined, written,
          req, output, last, parses, copies, pySigList, call>>

\* the state of siplib/qtlib.c
qtvars == <<pySigList, call>>

\* the null object pointer
NULL == "NULL"

\* the wrapper that transmits
Transmitters == {"tx"}

\* no call of the signal API has been made
NoCall ==
    [op |-> "none", txObj |-> NULL, sig |-> <<>>, rxObj |-> NULL,
     slot |-> <<>>, result |-> NULL, before |-> <<>>]

NUL == "NUL"

(***************************************************************************)
(* The symbol tables.                                                      *)
(***************************************************************************)

\* classDef: pyname, ecd (enclosing class), iff, the flags isExternal,
\* isHiddenNamespace and no_typehint, typehint_in, typehint_out
Cls(name, ecd, iff, flags, thin, thout) ==
    [pyname |-> name, ecd |-> ecd, iff |-> iff,
     external |-> "external" \in flags, hidden |-> "hidden" \in flags,
     no_typehint |-> "no_typehint" \in flags,
     typehint_in |-> thin, typehint_out |-> thout]

\* ifaceFileDef: module, type, api_range (<<>> is NULL, else <<from, to>>),
\* first_alt, next_alt
Iff(m, type, range, first, next) ==
    [module |-> m, type |-> type, api_range |-> range, first_alt |-> first,
     next_alt |-> next]

\* enumDef: pyname (<<>> is NULL), ecd, emtd, module
Enm(name, ecd, emtd, m) ==
    [pyname |-> name, ecd |-> ecd, emtd |-> emtd, module |-> m]

\* mappedTypeDef: pyname (<<>> is NULL), iff, typehint_in, typehint_out
Mtd(name, iff, thin, thout) ==
    [pyname |-> name, iff |-> iff, typehint_in |-> thin, typehint_out |-> thout]

\* typeHintDef as newTypeHint leaves it, and the direction it is used in
Thd(hint, out) == [raw_hint |-> hint \o <<NUL>>, out |-> out]

Worlds == {"recursive", "shared", "unions", "scopes", "api4", "api5", "malformed", "tokens", "names", "brackets", "nested", "kinds", "omitted"}

\* pt->classes
Classes(w) ==
    CASE w = "recursive" ->
            << Cls(<<"A">>, 0, 1, {}, 1, 0),
               Cls(<<"B">>, 0, 2, {}, 2, 0),
               Cls(<<"C">>, 0, 3, {}, 3, 0) >>
      [] w = "shared" ->
            << Cls(<<"A">>, 0, 1, {}, 1, 0) >>
      [] w = "unions" ->
            << Cls(<<"A">>, 0, 1, {}, 1, 0) >>
      [] w = "scopes" ->
            << Cls(<<"P">>, 0, 1, {}, 0, 0),
               Cls(<<"Q">>, 1, 2, {}, 0, 0),
               Cls(<<"R">>, 0, 3, {}, 0, 0),
               Cls(<<"X">>, 0, 4, {"external"}, 0, 0),
               Cls(<<"S">>, 2, 6, {}, 0, 0),
               Cls(<<"Z">>, 1, 7, {"no_typehint"}, 0, 0) >>
      [] w = "malformed" ->
            << Cls(<<"A">>, 0, 1, {}, 0, 0) >>
      [] w = "tokens" ->
            << Cls(<<"A">>, 0, 1, {}, 0, 0) >>
      [] w = "names" ->
            << Cls(<<"P">>, 0, 1, {}, 0, 0),
               Cls(<<"Q">>, 1, 2, {}, 0, 0) >>
      [] w = "brackets" ->
            << Cls(<<"A">>, 0, 1, {}, 0, 0) >>
      [] w = "nested" ->
            << Cls(<<"A">>, 0, 1, {}, 0, 0) >>
      [] w = "kinds" ->
            << Cls(<<"E">>, 0, 1, {}, 0, 0),
               Cls(<<"x">>, 1, 2, {}, 0, 0),
               Cls(<<"M">>, 0, 3, {}, 0, 0),
               Cls(<<"P">>, 0, 4, {}, 0, 0),
               Cls(<<"X">>, 4, 5, {}, 0, 0),
               Cls(<<"Q">>, 0, 6, {}, 0, 0) >>
      [] w = "omitted" ->
            << Cls(<<"A">>, 0, 1, {}, 0, 0) >>
      [] w \in {"api4", "api5"} ->
            << Cls(<<"V">>, 0, 1, {}, 0, 0),
               Cls(<<"V">>, 0, 2, {}, 0, 0),
               Cls(<<"W">>, 0, 3, {}, 0, 0),
               Cls(<<"W">>, 0, 4, {}, 0, 0),
               Cls(<<"U">>, 0, 5, {}, 0, 0),
               Cls(<<"N">>, 0, 7, {}, 0, 0) >>

\* the interface files of the classes and mapped types
Iffs(w) ==
    CASE w = "recursive" ->
            << Iff("M", "class", <<>>, 0, 0), Iff("M", "class", <<>>, 0, 0),
               Iff("M", "class", <<>>, 0, 0), Iff("M", "mapped", <<>>, 0, 0) >>
      [] w = "shared" -> << Iff("M", "class", <<>>, 0, 0) >>
      [] w = "unions" -> << Iff("M", "class", <<>>, 0, 0) >>
      [] w = "scopes" ->
            << Iff("M", "class", <<>>, 0, 0), Iff("M", "class", <<>>, 0, 0),
               Iff("N", "class", <<>>, 0, 0), Iff("M", "class", <<>>, 0, 0),
               Iff("M", "mapped", <<>>, 0, 0), Iff("M", "class", <<>>, 0, 0),
               Iff("M", "class", <<>>, 0, 0) >>
      [] w = "malformed" ->
            << Iff("M", "class", <<>>, 0, 0) >>
      [] w = "tokens" ->
            << Iff("M", "class", <<>>, 0, 0) >>
      [] w = "names" ->
            << Iff("M", "class", <<>>, 0, 0), Iff("M", "class", <<>>, 0, 0) >>
      [] w = "brackets" ->
            << Iff("M", "class", <<>>, 0, 0) >>
      [] w = "nested" ->
            << Iff("M", "class", <<>>, 0, 0) >>
      [] w = "kinds" ->
            << Iff("M", "class", <<>>, 0, 0), Iff("M", "class", <<>>, 0, 0),
               Iff("M", "class", <<>>, 0, 0), Iff("M", "class", <<>>, 0, 0),
               Iff("M", "class", <<>>, 0, 0), Iff("M", "class", <<>>, 0, 0),
               Iff("M", "mapped", <<>>, 0, 0), Iff("M", "mapped", <<>>, 0, 0) >>
      [] w = "omitted" ->
            << Iff("M", "class", <<>>, 0, 0), Iff("M", "mapped", <<>>, 0, 0),
               Iff("M", "mapped", <<>>, 0, 0) >>
      [] w \in {"api4", "api5"} ->
            << Iff("M", "class", <<0, 5>>, 1, 2),
               Iff("M", "class", <<5, 0>>, 1, 0),
               Iff("M", "class", <<3, 8>>, 3, 4),
               Iff("M", "class", <<4, 0>>, 3, 0),
               Iff("M", "class", <<7, 9>>, 5, 0),
               Iff("M", "mapped", <<6, 0>>, 6, 0),
               Iff("M", "class", <<>>, 0, 0) >>

\* pt->mappedtypes
MappedTypes(w) ==
    CASE w = "recursive" -> << Mtd(<<"T">>, 4, 4, 0) >>
      [] w = "shared" -> << >>
      [] w = "unions" -> << >>
      [] w = "scopes" -> << Mtd(<<"T">>, 5, 0, 0) >>
      [] w = "malformed" ->
            << >>
      [] w = "tokens" ->
            << >>
      [] w = "names" ->
            << >>
      [] w = "brackets" ->
            << >>
      [] w = "nested" ->
            << >>
      [] w = "kinds" ->
            << Mtd(<<"M">>, 7, 4, 0), Mtd(<<"T">>, 8, 0, 0) >>
      [] w = "omitted" ->
            << Mtd(<<"T">>, 2, 0, 0), Mtd(<<"W">>, 3, 3, 0) >>
      [] w \in {"api4", "api5"} -> << Mtd(<<"T">>, 6, 0, 0) >>

\* pt->enums
Enums(w) ==
    CASE w = "recursive" -> << >>
      [] w = "shared" -> << >>
      [] w = "unions" -> << >>
      [] w = "scopes" ->
            << Enm(<<"M", "y", "E", "n", "u", "m">>, 0, 0, "M"),
               Enm(<<"F">>, 1, 0, "M"),
               Enm(<<"G">>, 0, 1, "M"),
               Enm(<<"H">>, 0, 0, "N"),
               Enm(<<"K">>, 2, 0, "M") >>
      [] w = "malformed" ->
            << >>
      [] w = "tokens" ->
            << >>
      [] w = "names" ->
            << Enm(<<"F">>, 1, 0, "M") >>
      [] w = "brackets" ->
            << >>
      [] w = "nested" ->
            << >>
      [] w = "kinds" ->
            << Enm(<<"E">>, 0, 0, "M"),
               Enm(<<"X">>, 4, 0, "M"),
               Enm(<<"G">>, 0, 2, "M") >>
      [] w = "omitted" ->
            << >>
      [] w \in {"api4", "api5"} -> << >>

\* every typeHintDef the parser of the specification files created
Hints(w) ==
    CASE w = "recursive" ->
            << Thd(<<"U", "n", "i", "o", "n", "[", "A", ",", " ", "s", "t", "r", "]">>, FALSE),
               Thd(<<"L", "i", "s", "t", "[", "C", "]">>, FALSE),
               Thd(<<"T", "u", "p", "l", "e", "[", "B", ",", " ", "i", "n", "t", "]">>, FALSE),
               Thd(<<"L", "i", "s", "t", "[", "T", "]">>, FALSE),
               Thd(<<"B">>, FALSE),
               Thd(<<"C">>, FALSE),
               Thd(<<"D", "i", "c", "t", "[", "A", ",", " ", "T", "]">>, FALSE) >>
      [] w = "shared" ->
            << Thd(<<"U", "n", "i", "o", "n", "[", "i", "n", "t", ",", " ", "s", "t", "r", "]">>, FALSE),
               Thd(<<"U", "n", "i", "o", "n", "[", "A", ",", " ", "f", "l", "o", "a", "t", "]">>, FALSE),
               Thd(<<"L", "i", "s", "t", "[", "A", "]">>, FALSE),
               Thd(<<"U", "n", "i", "o", "n", "[", "A", ",", " ", "A", "]">>, FALSE) >>
      [] w = "unions" ->
            << Thd(<<"L", "i", "s", "t", "[", "i", "n", "t", "]">>, FALSE),
               Thd(<<"U", "n", "i", "o", "n", "[", "U", "n", "i", "o", "n", "[", "i", "n", "t", ",", " ", "s", "t", "r", "]", ",", " ", "f", "l", "o", "a", "t", "]">>, FALSE),
               Thd(<<"U", "n", "i", "o", "n", "[", "i", "n", "t", ",", " ", "s", "t", "r", ",", " ", "f", "l", "o", "a", "t", "]">>, FALSE),
               Thd(<<"T", "u", "p", "l", "e", "[", "A", ",", " ", "A", "]">>, FALSE),
               Thd(<<"A">>, TRUE),
               Thd(<<"L", "i", "s", "t", "[", "i", "n", "t">>, FALSE) >>
      [] w = "scopes" ->
            << Thd(<<"D", "i", "c", "t", "[", "s", "t", "r", ",", " ", "M", "y", "E", "n", "u", "m", "]">>, FALSE),
               Thd(<<"D", "i", "c", "t", "[", "s", "t", "r", ",", " ", "P", ".", "F", "]">>, FALSE),
               Thd(<<"P", ".", "Q">>, FALSE) >>
      [] w = "malformed" ->
            << Thd(<<"D", "i", "c", "t", "[", "A", ",", " ", "L", "i", "s", "t", "[", "A", "]", "x", "]">>, FALSE),
               Thd(<<"U", "n", "i", "o", "n">>, FALSE),
               Thd(<<"L", "i", "s", "t", "[", "U", "n", "i", "o", "n", "]">>, FALSE) >>
      [] w = "tokens" ->
            << Thd(<<"A", "n", "y">>, FALSE),
               Thd(<<"D", "i", "c", "t", "[", "A", "n", "y", ",", " ", "F", "o", "o", "]">>, FALSE),
               Thd(<<"C", "a", "l", "l", "a", "b", "l", "e", "[", "[", "]", ",", " ", "L", "i", "s", "t", "]">>, FALSE) >>
      [] w = "names" ->
            << Thd(<<"Q">>, FALSE),
               Thd(<<"L", "i", "s", "t", "[", "P", ".", "]">>, FALSE),
               Thd(<<"D", "i", "c", "t", "[", "P", ".", "N", "o", "p", "e", ",", " ", "P", ".", "F", ".", "x", "]">>, FALSE) >>
      [] w = "brackets" ->
            << Thd(<<"L", "i", "s", "t", "[", "i", "n", "t", "]", "[", "s", "t", "r", "]">>, FALSE),
               Thd(<<"D", "i", "c", "t", "[", "i", "n", "t", "]", ",", " ", "s", "t", "r", "]">>, FALSE),
               Thd(<<"L", "i", "s", "t", "[", "i", "n", "t", ",", "]">>, FALSE) >>
      [] w = "nested" ->
            << Thd(<<"D", "i", "c", "t", "[", "T", "u", "p", "l", "e", "[", "i", "n", "t", ",", " ", "s", "t", "r", "]", ",", " ", "f", "l", "o", "a", "t", "]">>, FALSE),
               Thd(<<"L", "i", "s", "t", "[", "]">>, FALSE),
               Thd(<<"C", "a", "l", "l", "a", "b", "l", "e", "[", "[", "i", "n", "t", ",", " ", "s", "t", "r", "]", ",", " ", "N", "o", "n", "e", "]">>, FALSE) >>
      [] w = "kinds" ->
            << Thd(<<"D", "i", "c", "t", "[", "E", ",", " ", "M", "]">>, FALSE),
               Thd(<<"D", "i", "c", "t", "[", "E", ".", "x", ",", " ", "T", ".", "Q", "]">>, FALSE),
               Thd(<<"D", "i", "c", "t", "[", "P", ".", "X", ",", " ", "T", ".", "G", "]">>, FALSE),
               Thd(<<"s", "t", "r">>, FALSE) >>
      [] w = "omitted" ->
            << Thd(<<"D", "i", "c", "t", "[", "s", "t", "r", ",", " ", "T", "]">>, FALSE),
               Thd(<<"L", "i", "s", "t", "[", "W", "]">>, FALSE),
               Thd(<<"U", "n", "i", "o", "n">>, FALSE) >>
      [] w \in {"api4", "api5"} ->
            << Thd(<<"V">>, FALSE),
               Thd(<<"D", "i", "c", "t", "[", "U", ",", " ", "T", "]">>, FALSE) >>

\* the annotations of arguments, results and variables: the ones pyiType
\* hands to pyiTypeHint
ArgHints(w) ==
    CASE w = "recursive" -> {5, 6, 7}
      [] w = "shared" -> {2, 3, 4}
      [] w = "unions" -> {2, 3, 4, 5, 6}
      [] w = "scopes" -> {1, 2, 3}
      [] w = "malformed" ->
            {1, 2, 3}
      [] w = "tokens" ->
            {1, 2, 3}
      [] w = "names" ->
            {1, 2, 3}
      [] w = "brackets" ->
            {1, 2, 3}
      [] w = "nested" ->
            {1, 2, 3}
      [] w = "kinds" ->
            {1, 2, 3}
      [] w = "omitted" ->
            {1, 2}
      [] w \in {"api4", "api5"} -> {1, 2}

\* pt->modules, by name
Modules(w) == IF w = "scopes" THEN {"M", "N"} ELSE {"M"}

\* findAPI(pt, name)->from: the default version of the one API
DefaultAPI(w) == IF w = "api4" THEN 4 ELSE IF w = "api5" THEN 5 ELSE 0

(***************************************************************************)
(* Strings.                                                                *)
(***************************************************************************)

\* static const char *typing[] of typingModule
TypingNames ==
    { <<"A", "n", "y">>, <<"C", "a", "l", "l", "a", "b", "l", "e">>, <<"D", "i", "c", "t">>, <<"I", "t", "e", "r", "a", "b", "l", "e">>, <<"I", "t", "e", "r", "a", "t", "o", "r">>, <<"L", "i", "s", "t">>,
      <<"M", "a", "p", "p", "i", "n", "g">>, <<"N", "a", "m", "e", "d", "T", "u", "p", "l", "e">>, <<"O", "p", "t", "i", "o", "n", "a", "l">>, <<"S", "e", "q", "u", "e", "n", "c", "e">>, <<"S", "e", "t">>,
      <<"T", "u", "p", "l", "e">>, <<"U", "n", "i", "o", "n">> }

s_Union == <<"U", "n", "i", "o", "n">>
s_Any == <<"A", "n", "y">>

\* the C string that starts at index i: the characters before the next NUL
RECURSIVE CString(_, _)
CString(str, i) ==
    IF i > Len(str) \/ str[i] = NUL THEN <<>>
    ELSE <<str[i]>> \o CString(str, i + 1)

\* strlen
strlen(str) == Len(CString(str, 1))

\* strip_leading: the new start
RECURSIVE strip_leading(_, _, _)
strip_leading(str, start, end) ==
    IF start < end /\ str[start] = " " THEN strip_leading(str, start + 1, end)
    ELSE start

\* strip_trailing: the new end
RECURSIVE strip_trailing(_, _, _)
strip_trailing(str, start, end) ==
    IF end > start /\ str[end - 1] = " " THEN strip_trailing(str, start, end - 1)
    ELSE end

\* the first cp in [start, end) with *cp == '[', or 0
FirstBracket(str, start, end) ==
    LET hits == {i \in start..(end - 1) : str[i] = "["}
    IN IF hits = {} THEN 0 ELSE CHOOSE i \in hits : \A j \in hits : i <= j

RECURSIVE MutantNextSeparator(_, _, _, _)
MutantNextSeparator(str, pp, end, depth) ==
    IF pp >= end THEN end
    ELSE IF str[pp] = "[" THEN MutantNextSeparator(str, pp + 1, end, depth + 1)
    ELSE IF str[pp] = "]" /\ depth # 0
         THEN MutantNextSeparator(str, pp + 1, end, depth - 1)
    ELSE IF str[pp] = "," \/ (str[pp] = "]" /\ depth = 0) THEN pp
    ELSE MutantNextSeparator(str, pp + 1, end, depth)

\* the inner for loop of parseTypeHintNode: the first pp in [cp, end) that is
\* a comma or a closing bracket at depth 0, or end
RECURSIVE NextSeparator(_, _, _, _)
NextSeparator(str, pp, end, depth) ==
    IF pp >= end THEN end
    ELSE IF str[pp] = "[" THEN NextSeparator(str, pp + 1, end, depth + 1)
    ELSE IF str[pp] = "]" /\ depth # 0
         THEN NextSeparator(str, pp + 1, end, depth - 1)
    ELSE IF (str[pp] = "," \/ str[pp] = "]") /\ depth = 0 THEN pp
    ELSE NextSeparator(str, pp + 1, end, depth)

\* typingModule: the table's entry, or <<>> for NULL
typingModule(name) == IF name \in TypingNames THEN name ELSE <<>>

\* strchr(sp, '.') within the C string at sp: the index of the dot, or 0
Strchr(name, sp) ==
    LET hits == {i \in sp..Len(name) : name[i] = "."}
    IN IF hits = {} THEN 0 ELSE CHOOSE i \in hits : \A j \in hits : i <= j

(***************************************************************************)
(* The default implementation and the lookups of the name resolver.        *)
(***************************************************************************)

\* the first of the list elements that pass the test of a for loop over a
\* linked list, which stops at the first match; 0 if there is none
FirstIndex(hits) ==
    CHOOSE first \in {IF S = {} THEN 0 ELSE CHOOSE i \in S : \A j \in S : i <= j :
                        S \in {hits}} : TRUE

MutantInRange(avd, def_api) ==
    /\ ~(avd[1] > 0 /\ avd[1] > def_api)
    /\ ~(avd[2] > 0 /\ avd[2] < def_api)

\* the range test of getDefaultImplementation
InRange(avd, def_api) ==
    /\ ~(avd[1] > 0 /\ avd[1] > def_api)
    /\ ~(avd[2] > 0 /\ avd[2] <= def_api)

\* the loop over iff->first_alt, iff->next_alt: the first alternative in range
RECURSIVE FirstAltInRange(_, _)
FirstAltInRange(w, iff) ==
    IF iff = 0 THEN 0
    ELSE IF InRange(Iffs(w)[iff].api_range, DefaultAPI(w)) THEN iff
    ELSE FirstAltInRange(w, Iffs(w)[iff].next_alt)

\* lines 1995-2009: the class or mapped type of the alternative in range
ImplementationOf(w, alt) ==
    IF alt = 0 THEN <<0, 0>>
    ELSE IF Iffs(w)[alt].type = "class"
    THEN <<FirstIndex({i \in 1..Len(Classes(w)) : Classes(w)[i].iff = alt}), 0>>
    ELSE <<0, FirstIndex({i \in 1..Len(MappedTypes(w)) :
                            MappedTypes(w)[i].iff = alt})>>

\* lines 1974-2014, for the interface file iff of the class or mapped type
DefaultImplementation(w, iff, cd, mtd) ==
    IF Iffs(w)[iff].api_range = <<>> THEN <<cd, mtd>>
    ELSE ImplementationOf(w, FirstAltInRange(w, Iffs(w)[iff].first_alt))

\* getDefaultImplementation: <<cd, mtd>> as left in *cdp and *mtdp
getDefaultImplementation(w, atype, cd, mtd) ==
    IF atype = "class_type"
    THEN DefaultImplementation(w, Classes(w)[cd].iff, cd, 0)
    ELSE DefaultImplementation(w, MappedTypes(w)[mtd].iff, 0, mtd)

getClassImplementation(w, cd) == getDefaultImplementation(w, "class_type", cd, 0)[1]

getMappedTypeImplementation(w, mtd) ==
    getDefaultImplementation(w, "mapped_type", 0, mtd)[2]

\* lookupEnum
lookupEnum(w, name, scope_cd, scope_mtd) ==
    FirstIndex({i \in 1..Len(Enums(w)) :
                    /\ Enums(w)[i].pyname # <<>>
                    /\ Enums(w)[i].pyname = name
                    /\ Enums(w)[i].ecd = scope_cd
                    /\ Enums(w)[i].emtd = scope_mtd})

\* return impl: the implementation of the mapped type found, if any
MappedTypeFound(w, mtd) ==
    IF mtd = 0 THEN 0 ELSE getMappedTypeImplementation(w, mtd)

\* lookupMappedType
lookupMappedType(w, name) ==
    MappedTypeFound(w,
        FirstIndex({i \in 1..Len(MappedTypes(w)) :
                        /\ MappedTypes(w)[i].pyname # <<>>
                        /\ MappedTypes(w)[i].pyname = name
                        /\ getMappedTypeImplementation(w, i) # 0}))

\* return impl: the implementation of the class found, if any
ClassFound(w, cd) == IF cd = 0 THEN 0 ELSE getClassImplementation(w, cd)

MutantLookupClass(w, name, scope_cd) ==
    FirstIndex({i \in 1..Len(Classes(w)) :
                    /\ Classes(w)[i].pyname = name
                    /\ Classes(w)[i].ecd = scope_cd
                    /\ ~Classes(w)[i].external})

\* lookupClass
lookupClass(w, name, scope_cd) ==
    ClassFound(w,
        FirstIndex({i \in 1..Len(Classes(w)) :
                        /\ Classes(w)[i].pyname = name
                        /\ Classes(w)[i].ecd = scope_cd
                        /\ ~Classes(w)[i].external
                        /\ getClassImplementation(w, i) # 0}))

\* what lookupType does when a mapped type is the last part of the name
MappedTypeHit(st, thd) ==
    IF thd # 0 /\ st[thd] # "being_parsed" THEN [kind |-> "copy", thd |-> thd]
    ELSE [kind |-> "omit"]

MutantClassHit(st, thd, cd) ==
    IF thd # 0 THEN [kind |-> "copy", thd |-> thd]
    ELSE [kind |-> "class", cd |-> cd]

MutantClassHitNoCopy(st, thd, cd) == [kind |-> "class", cd |-> cd]

\* what lookupType does when a class is the last part of the name
ClassHit(st, thd, cd) ==
    IF thd # 0 /\ st[thd] # "being_parsed" THEN [kind |-> "copy", thd |-> thd]
    ELSE [kind |-> "class", cd |-> cd]

\* lines 1767-1857: one pass of the while loop of lookupType once the part
\* of the name before ep has been looked up as an enum (ed), as a mapped type
\* (mtd, at the global level only) and as a class (cd).  The result says
\* which return statement is reached: an enum node, a class node, an other
\* node, no node, or a copy of the root of annotation thd.
RECURSIVE lookupLoop(_, _, _, _, _, _, _)
MutantLookupPart(w, st, name, ep, scope_cd, scope_mtd, out, ed, mtd, cd) ==
    IF cd # 0
    THEN IF ep = 0
         THEN ClassHit(st, IF out THEN Classes(w)[cd].typehint_out
                                  ELSE Classes(w)[cd].typehint_in, cd)
         ELSE lookupLoop(w, st, name, ep + 1, cd, scope_mtd, out)
    ELSE IF ed # 0
    THEN IF ep = 0 THEN [kind |-> "enum", ed |-> ed]
         ELSE [kind |-> "other", name |-> name]
    ELSE IF mtd # 0
    THEN IF ep = 0
         THEN MappedTypeHit(st, IF out THEN MappedTypes(w)[mtd].typehint_out
                                       ELSE MappedTypes(w)[mtd].typehint_in)
         ELSE lookupLoop(w, st, name, ep + 1, scope_cd, mtd, out)
    ELSE [kind |-> "other", name |-> name]

lookupPart(w, st, name, ep, scope_cd, scope_mtd, out, ed, mtd, cd) ==
    IF ed # 0
    THEN IF ep = 0 THEN [kind |-> "enum", ed |-> ed]
         ELSE [kind |-> "other", name |-> name]
    ELSE IF scope_mtd # 0 THEN [kind |-> "other", name |-> name]
    ELSE IF mtd # 0
    THEN IF ep = 0
         THEN MappedTypeHit(st, IF out THEN MappedTypes(w)[mtd].typehint_out
                                       ELSE MappedTypes(w)[mtd].typehint_in)
         ELSE lookupLoop(w, st, name, ep + 1, scope_cd, mtd, out)
    ELSE IF cd = 0 THEN [kind |-> "other", name |-> name]
    ELSE IF ep = 0
    THEN ClassHit(st, IF out THEN Classes(w)[cd].typehint_out
                             ELSE Classes(w)[cd].typehint_in, cd)
    ELSE lookupLoop(w, st, name, ep + 1, cd, scope_mtd, out)

\* the part of the name from sp to the dot at ep, or to the end
NamePart(name, sp, ep) ==
    IF ep = 0 THEN SubSeq(name, sp, Len(name)) ELSE SubSeq(name, sp, ep - 1)

\* lines 1763-1768, 1799, 1829: the lookups of the part that ends at ep
lookupAt(w, st, name, sp, ep, scope_cd, scope_mtd, out) ==
    lookupPart(w, st, name, ep, scope_cd, scope_mtd, out,
               lookupEnum(w, NamePart(name, sp, ep), scope_cd, scope_mtd),
               IF scope_cd = 0 THEN lookupMappedType(w, NamePart(name, sp, ep))
               ELSE 0,
               lookupClass(w, NamePart(name, sp, ep), scope_cd))

\* lines 1759-1869: the while loop of lookupType from the part of the name
\* that starts at sp, and the other node made when it is left.  The loop is
\* left with sp at the terminator only after a part that ends the name with
\* a dot has been taken as a scope: ep then points to the terminator, which
\* line 1862 overwrites with a dot before the name is copied.
lookupLoop(w, st, name, sp, scope_cd, scope_mtd, out) ==
    IF sp > Len(name) THEN [kind |-> "overrun", name |-> name]
    ELSE lookupAt(w, st, name, sp, Strchr(name, sp), scope_cd, scope_mtd, out)

MutantLookupType(w, st, name, out) == lookupLoop(w, st, name, 1, 1, 0, out)

\* lookupType: the search starts at the global level
lookupType(w, st, name, out) == lookupLoop(w, st, name, 1, 0, 0, out)

(***************************************************************************)
(* The renderer.  Text is a sequence of characters.                        *)
(***************************************************************************)

\* anyObject(pep484)
anyObject(pep484) == IF pep484 THEN <<"t", "y", "p", "i", "n", "g", ".", "A", "n", "y">> ELSE <<"o", "b", "j", "e", "c", "t">>

\* maybeAnyObject
maybeAnyObject(hint, pep484) == IF hint # s_Any THEN hint ELSE anyObject(pep484)

\* inIfaceFileList
inIfaceFileList(iff, list) == \E i \in 1..Len(list) : list[i] = iff

\* the while loop of isDefined over the enclosing scopes
RECURSIVE ScopesDefined(_, _, _)
ScopesDefined(w, scope, list) ==
    IF scope = 0 THEN TRUE
    ELSE IF ~inIfaceFileList(Classes(w)[scope].iff, list) THEN FALSE
    ELSE ScopesDefined(w, Classes(w)[scope].ecd, list)

MutantIsDefined(w, iff, scope, m, list) ==
    \/ Iffs(w)[iff].module # m
    \/ inIfaceFileList(iff, list)

\* isDefined
isDefined(w, iff, scope, m, list) ==
    IF Iffs(w)[iff].module # m THEN TRUE
    ELSE IF ~inIfaceFileList(iff, list) THEN FALSE
    ELSE ScopesDefined(w, scope, list)

\* prScopedPythonName; pyname <<>> is NULL
RECURSIVE prScopedPythonName(_, _, _)
prScopedPythonName(w, scope, pyname) ==
    (IF scope # 0 /\ ~Classes(w)[scope].hidden
     THEN prScopedPythonName(w, Classes(w)[scope].ecd, <<>>)
          \o Classes(w)[scope].pyname \o <<".">>
     ELSE <<>>)
    \o pyname

\* prScopedEnumName
prScopedEnumName(w, ed) ==
    IF Enums(w)[ed].emtd # 0
    THEN MappedTypes(w)[Enums(w)[ed].emtd].pyname \o <<".">> \o Enums(w)[ed].pyname
    ELSE prScopedPythonName(w, Enums(w)[ed].ecd, Enums(w)[ed].pyname)

\* the is_defined of prClassRef
ClassIsDefined(w, cd, m, list) ==
    Classes(w)[cd].external
        \/ isDefined(w, Classes(w)[cd].iff, Classes(w)[cd].ecd, m, list)

\* prClassRef
prClassRef(w, cd, m, list, pep484) ==
    IF pep484
    THEN LET quote == IF ClassIsDefined(w, cd, m, list) THEN <<>> ELSE <<"'">>
         IN quote
            \o (IF Iffs(w)[Classes(w)[cd].iff].module # m
                THEN <<Iffs(w)[Classes(w)[cd].iff].module, ".">> ELSE <<>>)
            \o prScopedPythonName(w, Classes(w)[cd].ecd, Classes(w)[cd].pyname)
            \o quote
    ELSE prScopedPythonName(w, Classes(w)[cd].ecd, Classes(w)[cd].pyname)

MutantEnumNoScopes(w, ed, m, list) ==
    IF Enums(w)[ed].ecd # 0
    THEN isDefined(w, Classes(w)[Enums(w)[ed].ecd].iff, 0, m, list)
    ELSE IF Enums(w)[ed].emtd # 0
    THEN isDefined(w, MappedTypes(w)[Enums(w)[ed].emtd].iff, 0, m, list)
    ELSE TRUE

MutantEnumInLedger(w, ed, m, list) ==
    IF Enums(w)[ed].ecd # 0
    THEN isDefined(w, Classes(w)[Enums(w)[ed].ecd].iff,
                   Classes(w)[Enums(w)[ed].ecd].ecd, m, list)
    ELSE IF Enums(w)[ed].emtd # 0
    THEN isDefined(w, MappedTypes(w)[Enums(w)[ed].emtd].iff, 0, m, list)
    ELSE Enums(w)[ed].module # m

\* the is_defined of prEnumRef
EnumIsDefined(w, ed, m, list) ==
    IF Enums(w)[ed].ecd # 0
    THEN isDefined(w, Classes(w)[Enums(w)[ed].ecd].iff,
                   Classes(w)[Enums(w)[ed].ecd].ecd, m, list)
    ELSE IF Enums(w)[ed].emtd # 0
    THEN isDefined(w, MappedTypes(w)[Enums(w)[ed].emtd].iff, 0, m, list)
    ELSE TRUE

\* prEnumRef
prEnumRef(w, ed, m, list, pep484) ==
    IF pep484
    THEN LET quote == IF EnumIsDefined(w, ed, m, list) THEN <<>> ELSE <<"'">>
         IN quote
            \o (IF Enums(w)[ed].module # m
                THEN <<Enums(w)[ed].module, ".">> ELSE <<>>)
            \o prScopedEnumName(w, ed)
            \o quote
    ELSE prScopedEnumName(w, ed)

\* the nodes of a sibling list from n on, following next; a list that loops
\* back on itself is cut after every node of the heap has been counted once
RECURSIVE Siblings(_, _, _)
Siblings(h, n, fuel) ==
    IF n = 0 \/ fuel = 0 THEN <<>>
    ELSE <<n>> \o Siblings(h, h[n].next, fuel - 1)

ChildrenOf(h, n) == Siblings(h, h[n].children, Len(h))

\* pyiTypeHintNode
RECURSIVE pyiTypeHintNode(_, _, _, _, _, _)
RECURSIVE pyiChildren(_, _, _, _, _, _, _)
pyiChildren(w, h, kids, i, m, list, pep484) ==
    IF i > Len(kids) THEN <<>>
    ELSE (IF i > 1 THEN <<",", " ">> ELSE <<>>)
         \o pyiTypeHintNode(w, h, kids[i], m, list, pep484)
         \o pyiChildren(w, h, kids, i + 1, m, list, pep484)

MutantPyiTypeHintNode(w, h, node, m, list, pep484) ==
    CASE h[node].type = "typing_node" ->
            (IF pep484 THEN <<"t", "y", "p", "i", "n", "g", ".">> ELSE <<>>) \o h[node].name
            \o <<"[">> \o pyiChildren(w, h, ChildrenOf(h, node), 1, m, list, pep484)
            \o <<"]">>
      [] h[node].type = "class_node" -> prClassRef(w, h[node].ref, m, list, pep484)
      [] h[node].type = "enum_node" -> prEnumRef(w, h[node].ref, m, list, pep484)
      [] h[node].type = "brackets_node" -> <<"[", "]">>
      [] h[node].type = "other_node" -> maybeAnyObject(h[node].name, pep484)

pyiTypeHintNode(w, h, node, m, list, pep484) ==
    CASE h[node].type = "typing_node" ->
            (IF pep484 THEN <<"t", "y", "p", "i", "n", "g", ".">> ELSE <<>>) \o h[node].name
            \o (IF h[node].children # 0
                THEN <<"[">> \o pyiChildren(w, h, ChildrenOf(h, node), 1, m, list,
                                          pep484) \o <<"]">>
                ELSE <<>>)
      [] h[node].type = "class_node" -> prClassRef(w, h[node].ref, m, list, pep484)
      [] h[node].type = "enum_node" -> prEnumRef(w, h[node].ref, m, list, pep484)
      [] h[node].type = "brackets_node" -> <<"[", "]">>
      [] h[node].type = "other_node" -> maybeAnyObject(h[node].name, pep484)

MutantPyiTypeHintText(w, h, rt, hint, m, list, pep484) ==
    IF rt # 0 THEN pyiTypeHintNode(w, h, rt, m, list, pep484)
    ELSE anyObject(pep484)

\* the rest of pyiTypeHint once parseTypeHint has returned
pyiTypeHintText(w, h, rt, hint, m, list, pep484) ==
    IF rt # 0 THEN pyiTypeHintNode(w, h, rt, m, list, pep484)
    ELSE maybeAnyObject(CString(hint, 1), pep484)

\* pyiType for an argument with no annotation whose type is a class, a
\* mapped type or a named enum
pyiTypeText(w, atype, u, m, list, pep484) ==
    IF atype = "enum_type"
    THEN IF Enums(w)[u].pyname # <<>> THEN prEnumRef(w, u, m, list, pep484)
         ELSE <<"i", "n", "t">>
    ELSE LET impl == IF atype = "class_type"
                     THEN getDefaultImplementation(w, atype, u, 0)
                     ELSE getDefaultImplementation(w, atype, 0, u)
         IN IF impl[1] # 0 THEN prClassRef(w, impl[1], m, list, pep484)
            ELSE anyObject(pep484)

(***************************************************************************)
(* The heap of nodes.                                                      *)
(***************************************************************************)

\* a typeHintNodeDef as sipMalloc returns it with type and u set
Node(type, name, ref, children) ==
    [type |-> type, name |-> name, ref |-> ref, children |-> children,
     next |-> 0]

MutantIsUnion(h, n) == h[n].type = "typing_node" /\ h[n].name # s_Union

\* the test of flatten_unions: the node is the Union of the typing module
IsUnion(h, n) == h[n].type = "typing_node" /\ h[n].name = s_Union

\* *tailp = n, where tailp is &head (0) or &t->next (t)
StoreAtTail(h, tailp, n) == IF tailp = 0 THEN h ELSE [h EXCEPT ![tailp].next = n]

\* the structure below node n: kinds, names and children in order
RECURSIVE TreeOf(_, _, _)
TreeOf(h, n, depth) ==
    IF depth = 0 THEN [type |-> "cut", name |-> <<>>, ref |-> 0, kids |-> <<>>]
    ELSE LET ch == ChildrenOf(h, n)
         IN [type |-> h[n].type, name |-> h[n].name, ref |-> h[n].ref,
             kids |-> [i \in 1..Len(ch) |-> TreeOf(h, ch[i], depth - 1)]]

Tree(h, n) == TreeOf(h, n, Len(h))

(***************************************************************************)
(* The call stack of the parser.                                           *)
(***************************************************************************)

NoFrame ==
    [kind |-> "none", pc |-> "none", thd |-> 0, out |-> FALSE, top |-> FALSE,
     start |-> 0, end |-> 0, name_end |-> 0, have_brackets |-> FALSE, cp |-> 0,
     children |-> 0, tail |-> 0, saved |-> NUL, copied |-> 0,
     head |-> 0, tailp |-> 0, thnd |-> 0, child |-> 0]

\* a call of parseTypeHintNode on [start, end) of the raw string of thd
ParseFrame(thd, out, top, start, end) ==
    [NoFrame EXCEPT !.kind = "parse", !.pc = "entry", !.thd = thd, !.out = out,
                    !.top = top, !.start = start, !.end = end]

\* a call of flatten_unions
FlattenFrame(nodes) ==
    [NoFrame EXCEPT !.kind = "flatten", !.pc = "outer", !.thd = 0, !.thnd = nodes]

Idle == stack = <<>>
Top == stack[Len(stack)]
Below == SubSeq(stack, 1, Len(stack) - 1)
NoReq == [thd |-> 0, pep484 |-> FALSE]
NoRet == [ok |-> TRUE, node |-> 0]
NoLast == [atype |-> "none", u |-> 0, pep484 |-> FALSE]

\* the test of parseTypeHint
MutantNeedsParsing(st) == st # "being_parsed"

NeedsParsing(st) == st = "needs_parsing"

\* the return of parseTypeHintNode, and for the top-level call the
\* statement of parseTypeHint that follows it; rt, h and rw are root, heap
\* and raw as the body left them
Return(f, ok, node, rt, h, rw) ==
    /\ stack' = Below
    /\ ret' = [ok |-> ok, node |-> node]
    /\ heap' = h
    /\ raw' = rw
    /\ status' = IF f.top THEN [status EXCEPT ![f.thd] = "parsed"] ELSE status
    /\ root' = IF f.top /\ ok THEN [rt EXCEPT ![f.thd] = node] ELSE rt

\* the frame goes on with its fields changed to g, and calls callee if it
\* is a frame
Continue(g, callee, rt, h, rw, st) ==
    /\ stack' = IF callee.kind = "none" THEN Append(Below, g)
                ELSE Append(Append(Below, g), callee)
    /\ ret' = NoRet
    /\ heap' = h
    /\ raw' = rw
    /\ status' = st
    /\ root' = rt

(***************************************************************************)
(* parseTypeHintNode, one action per stretch of code between two calls.    *)
(***************************************************************************)

\* lines 1507-1528: strip the span and find the first opening bracket
ParseEntry ==
    /\ ~Idle /\ Top.kind = "parse" /\ Top.pc = "entry"
    /\ LET f == Top
           str == raw[f.thd]
           rt == IF f.top THEN [root EXCEPT ![f.thd] = 0] ELSE root
           start == strip_leading(str, f.start, f.end)
           end == strip_trailing(str, start, f.end)
           cp == FirstBracket(str, start, end)
       IN IF cp = 0
          THEN Continue([f EXCEPT !.start = start, !.end = end,
                                  !.name_end = end, !.pc = "name"],
                        NoFrame, rt, heap, raw, status)
          ELSE IF str[end - 1] # "]"
          THEN Return(f, FALSE, 0, rt, heap, raw)
          ELSE Continue([f EXCEPT !.start = start, !.end = end,
                                  !.name_end = strip_trailing(str, start, cp),
                                  !.cp = cp, !.pc = "scan"],
                        NoFrame, rt, heap, raw, status)
    /\ UNCHANGED <<qtvars, world, mod, defined, written, req, output, last, parses, copies>>

\* lines 1530-1575: skip the bracket or comma and find the next span; parse
\* it, or leave the loop when the end of the span is reached
ParseScan ==
    /\ ~Idle /\ Top.kind = "parse" /\ Top.pc = "scan"
    /\ LET f == Top
           cp == f.cp + 1
           pp == NextSeparator(raw[f.thd], cp, f.end, 0)
       IN IF pp < f.end
          THEN Continue([f EXCEPT !.cp = pp, !.pc = "child"],
                        ParseFrame(f.thd, f.out, FALSE, cp, pp),
                        root, heap, raw, status)
          ELSE Continue([f EXCEPT !.cp = cp, !.have_brackets = TRUE,
                                  !.pc = "name"],
                        NoFrame, root, heap, raw, status)
    /\ UNCHANGED <<qtvars, world, mod, defined, written, req, output, last, parses, copies>>

MutantParseChild ==
    /\ ~Idle /\ Top.kind = "parse" /\ Top.pc = "child"
    /\ LET f == Top
       IN IF ret.ok /\ ret.node # 0
          THEN Continue([f EXCEPT !.children = IF f.tail = 0 THEN ret.node
                                               ELSE f.children,
                                  !.tail = ret.node, !.pc = "scan"],
                        NoFrame, root, StoreAtTail(heap, f.tail, ret.node), raw,
                        status)
          ELSE Continue([f EXCEPT !.pc = "scan"], NoFrame, root, heap, raw,
                        status)
    /\ UNCHANGED <<qtvars, world, mod, defined, written, req, output, last, parses, copies>>

\* lines 1555-1570: the recursive call has returned; append the child
ParseChild ==
    /\ ~Idle /\ Top.kind = "parse" /\ Top.pc = "child"
    /\ LET f == Top
       IN IF ~ret.ok
          THEN Return(f, FALSE, 0, root, heap, raw)
          ELSE IF ret.node # 0
          THEN Continue([f EXCEPT !.children = IF f.tail = 0 THEN ret.node
                                               ELSE f.children,
                                  !.tail = ret.node, !.pc = "scan"],
                        NoFrame, root, StoreAtTail(heap, f.tail, ret.node), raw,
                        status)
          ELSE Continue([f EXCEPT !.pc = "scan"], NoFrame, root, heap, raw,
                        status)
    /\ UNCHANGED <<qtvars, world, mod, defined, written, req, output, last, parses, copies>>

\* copyTypeHintNode once parseTypeHint has returned: <<heap, node>>
copyTypeHintNode(h, rt) ==
    IF rt = 0 THEN <<h, 0>>
    ELSE <<Append(h, [h[rt] EXCEPT !.next = 0]), Len(h) + 1>>

\* what the history of copies keeps of one return of copyTypeHintNode
Copied(h, node) ==
    IF node = 0 THEN [type |-> "NULL", name |-> <<>>, ref |-> 0, kids |-> <<>>]
    ELSE Tree(h, node)

\* lines 1627-1636: restore the character after the name and return
ParseNameEnd(f, node, h, cps) ==
    /\ Return(f, ~f.have_brackets, IF f.have_brackets THEN 0 ELSE node, root, h,
              [raw EXCEPT ![f.thd][f.name_end] = f.saved])
    /\ copies' = cps

\* lines 1881-1890 for an annotation that has been parsed before
ParseCopy(f, thd, c) ==
    ParseNameEnd(f, c[2], c[1],
                 [copies EXCEPT ![thd] = @ \cup {Copied(c[1], c[2])}])

\* what is read after the end of the buffer of a raw string: nothing, or
\* bytes that are no part of the annotation
Beyond == {<<>>, <<"?">>}

\* line 1867 once line 1862 has overwritten the terminator at name_end:
\* what sipStrdup copies after the dot, up to the next terminator
Overread(str, name_end) ==
    IF name_end < Len(str) THEN {CString(str, name_end + 1)} ELSE Beyond

\* lines 1624-1625: lookupType, up to a call of parseTypeHint
ParseLookup(f, isolated, found) ==
    CASE found.kind = "enum" ->
            /\ ParseNameEnd(f, Len(heap) + 1,
                  Append(heap, Node("enum_node", <<>>, found.ed, 0)), copies)
            /\ UNCHANGED parses
      [] found.kind = "class" ->
            /\ ParseNameEnd(f, Len(heap) + 1,
                  Append(heap, Node("class_node", <<>>, found.cd, 0)), copies)
            /\ UNCHANGED parses
      [] found.kind = "other" ->
            /\ ParseNameEnd(f, Len(heap) + 1,
                  Append(heap, Node("other_node", found.name, 0, 0)), copies)
            /\ UNCHANGED parses
      [] found.kind = "overrun" ->
            /\ \E beyond \in Overread(isolated[f.thd], f.name_end) :
                  ParseNameEnd(f, Len(heap) + 1,
                      Append(heap, Node("other_node",
                                        found.name \o <<".">> \o beyond, 0, 0)),
                      copies)
            /\ UNCHANGED parses
      [] found.kind = "omit" ->
            /\ ParseNameEnd(f, 0, heap, copies)
            /\ UNCHANGED parses
      [] found.kind = "copy" ->
            IF NeedsParsing(status[found.thd])
            THEN /\ Continue([f EXCEPT !.pc = "copied", !.copied = found.thd],
                       ParseFrame(found.thd, f.out, TRUE, 1,
                                  1 + strlen(raw[found.thd])),
                       root, heap, isolated,
                       [status EXCEPT ![found.thd] = "being_parsed"])
                 /\ parses' = [parses EXCEPT ![found.thd] = @ + 1]
                 /\ UNCHANGED copies
            ELSE /\ ParseCopy(f, found.thd,
                              copyTypeHintNode(heap, root[found.thd]))
                 /\ UNCHANGED parses

\* lines 1602-1620: a name of the typing module, up to a call of
\* flatten_unions
ParseTyping(f, isolated, typing) ==
    /\ IF typing = s_Union
       THEN IF f.children = 0
            THEN Return(f, TRUE, 0, root, heap, isolated)
            ELSE Continue([f EXCEPT !.pc = "flattened"],
                          FlattenFrame(f.children), root, heap, isolated, status)
       ELSE Return(f, TRUE, Len(heap) + 1, root,
                   Append(heap, Node("typing_node", typing, 0, f.children)), raw)
    /\ UNCHANGED <<parses, copies>>

\* lines 1602, 1624: the isolated name is a typing name or is looked up
ParseIsolated(f, isolated, name) ==
    IF typingModule(name) # <<>>
    THEN ParseTyping(f, isolated, typingModule(name))
    ELSE \E found \in {lookupType(world, status, name, f.out)} :
            ParseLookup(f, isolated, found)

\* lines 1597-1599: isolate the name
ParseNamed(f, isolated) ==
    \E name \in {CString(isolated[f.thd], f.start)} :
        ParseIsolated(f, isolated, name)

\* lines 1583-1591: no name
ParseNoName(f) ==
    /\ IF f.top /\ f.have_brackets /\ f.children = 0
       THEN Return(f, FALSE, 0, root, heap, raw)
       ELSE Return(f, TRUE, Len(heap) + 1, root,
                   Append(heap, Node("brackets_node", <<>>, 0, 0)), raw)
    /\ UNCHANGED <<parses, copies>>

\* lines 1582-1636: the name, up to a call of flatten_unions or parseTypeHint
ParseName ==
    /\ ~Idle /\ Top.kind = "parse" /\ Top.pc = "name"
    /\ IF Top.start = Top.name_end
       THEN ParseNoName(Top)
       ELSE \E f \in {[Top EXCEPT !.saved = raw[Top.thd][Top.name_end]]},
               isolated \in {[raw EXCEPT ![Top.thd][Top.name_end] = NUL]} :
                ParseNamed(f, isolated)
    /\ UNCHANGED <<qtvars, world, mod, defined, written, req, output, last>>

\* lines 1613-1619: flatten_unions has returned; make the Union node
ParseFlattened ==
    /\ ~Idle /\ Top.kind = "parse" /\ Top.pc = "flattened"
    /\ LET f == Top
       IN Return(f, TRUE, Len(heap) + 1, root,
                 Append(heap, Node("typing_node", s_Union, 0, ret.node)),
                 [raw EXCEPT ![f.thd][f.name_end] = f.saved])
    /\ UNCHANGED <<qtvars, world, mod, defined, written, req, output, last, parses, copies>>

\* lines 1883-1890 and 1627-1636: the parseTypeHint that copyTypeHintNode
\* called has returned; copy the root
ParseCopied ==
    /\ ~Idle /\ Top.kind = "parse" /\ Top.pc = "copied"
    /\ ParseCopy(Top, Top.copied, copyTypeHintNode(heap, root[Top.copied]))
    /\ UNCHANGED <<qtvars, world, mod, defined, written, req, output, last, parses>>

(***************************************************************************)
(* flatten_unions, one action per iteration of each loop.                  *)
(***************************************************************************)

\* flatten_unions returns to the parseTypeHintNode that called it
FlattenReturn(f, h) ==
    /\ stack' = Below
    /\ ret' = [ok |-> TRUE, node |-> f.head]
    /\ heap' = h

\* lines 1714-1736: one iteration of the outer loop, or the end of it
FlattenOuter ==
    /\ ~Idle /\ Top.kind = "flatten" /\ Top.pc = "outer"
    /\ LET f == Top
           thnd == f.thnd
           moved == StoreAtTail(heap, f.tailp, thnd)
       IN IF thnd = 0
          THEN FlattenReturn([f EXCEPT !.head = IF f.tailp = 0 THEN 0
                                                ELSE f.head],
                             StoreAtTail(heap, f.tailp, 0))
          ELSE IF IsUnion(heap, thnd)
          THEN /\ stack' = Append(Below, [f EXCEPT !.child = heap[thnd].children,
                                                   !.pc = "inner"])
               /\ UNCHANGED <<ret, heap>>
          ELSE /\ stack' = Append(Below,
                      [f EXCEPT !.head = IF f.tailp = 0 THEN thnd ELSE f.head,
                                !.tailp = thnd,
                                !.thnd = moved[thnd].next])
               /\ heap' = moved
               /\ UNCHANGED ret
    /\ UNCHANGED <<qtvars, world, mod, status, root, raw, defined, written, req, output, last,
                   parses, copies>>

\* lines 1720-1724: one iteration of the inner loop, or the end of it
FlattenInner ==
    /\ ~Idle /\ Top.kind = "flatten" /\ Top.pc = "inner"
    /\ LET f == Top
           child == f.child
           moved == StoreAtTail(heap, f.tailp, child)
       IN IF child = 0
          THEN /\ stack' = Append(Below, [f EXCEPT !.thnd = heap[f.thnd].next,
                                                   !.pc = "outer"])
               /\ UNCHANGED heap
          ELSE /\ stack' = Append(Below,
                      [f EXCEPT !.head = IF f.tailp = 0 THEN child ELSE f.head,
                                !.tailp = child,
                                !.child = moved[child].next])
               /\ heap' = moved
    /\ UNCHANGED <<qtvars, world, mod, status, root, raw, ret, defined, written, req,
                   output, last, parses, copies>>

(***************************************************************************)
(* The callers: the emitter of the stub file.                              *)
(***************************************************************************)

ThdIds == 1..Len(Hints(world))

\* the concatenation of f[1], ..., f[n]
RECURSIVE Concat(_, _)
Concat(f, n) == IF n = 0 THEN <<>> ELSE Concat(f, n - 1) \o f[n]

MutantPyiClass(w, cd) ==
    <<Classes(w)[cd].iff>>
    \o Concat([n \in 1..Len(Classes(w)) |->
                  IF Classes(w)[n].ecd = cd /\ ~Classes(w)[n].no_typehint
                  THEN <<Classes(w)[n].iff>> ELSE <<>>],
              Len(Classes(w)))

\* pyiClass: the interface files it hands to appendToIfaceFileList, in
\* order: those of the nested classes it writes, then its own (lines 417-424
\* and 497)
RECURSIVE pyiClass(_, _)
pyiClass(w, cd) ==
    Concat([n \in 1..Len(Classes(w)) |->
                LET impl == getClassImplementation(w, n)
                IN IF impl # 0 /\ Classes(w)[impl].ecd = cd
                      /\ ~Classes(w)[impl].no_typehint
                   THEN pyiClass(w, impl) ELSE <<>>],
           Len(Classes(w)))
    \o <<Classes(w)[cd].iff>>

\* pyiModule: the interface files handed to appendToIfaceFileList while
\* module m is written, in order (lines 195-233, 554)
pyiModule(w, m) ==
    Concat([n \in 1..Len(Classes(w)) |->
                LET impl == getClassImplementation(w, n)
                IN IF Iffs(w)[Classes(w)[n].iff].module = m
                      /\ ~Classes(w)[n].external
                      /\ impl # 0
                      /\ ~Classes(w)[impl].no_typehint
                      /\ Classes(w)[impl].ecd = 0
                   THEN pyiClass(w, impl) ELSE <<>>],
           Len(Classes(w)))
    \o Concat([n \in 1..Len(MappedTypes(w)) |->
                LET impl == getMappedTypeImplementation(w, n)
                IN IF Iffs(w)[MappedTypes(w)[n].iff].module = m
                      /\ impl # 0
                      /\ MappedTypes(w)[impl].pyname # <<>>
                   THEN <<MappedTypes(w)[impl].iff>> ELSE <<>>],
           Len(MappedTypes(w)))

\* appendToIfaceFileList: an interface file already in the list is not
\* added again
appendToIfaceFileList(list, iff) ==
    IF inIfaceFileList(iff, list) THEN list ELSE Append(list, iff)

\* pyiType calls pyiTypeHint for an annotated argument: lines 955-961 and
\* 1421, 1487-1491
PyiTypeHint(thd, pep484) ==
    /\ Idle /\ req.thd = 0
    /\ req' = [thd |-> thd, pep484 |-> pep484]
    /\ IF NeedsParsing(status[thd])
       THEN /\ status' = [status EXCEPT ![thd] = "being_parsed"]
            /\ stack' = <<ParseFrame(thd, Hints(world)[thd].out, TRUE, 1,
                                     1 + strlen(raw[thd]))>>
            /\ parses' = [parses EXCEPT ![thd] = @ + 1]
       ELSE UNCHANGED <<status, stack, parses>>
    /\ ret' = NoRet
    /\ output' = <<>>
    /\ last' = NoLast
    /\ UNCHANGED <<qtvars, world, mod, root, raw, heap, defined, written, copies>>

\* lines 1423-1426: parseTypeHint has returned; write the text
PyiTypeHintWrite ==
    /\ Idle /\ req.thd # 0
    /\ output' = pyiTypeHintText(world, heap, root[req.thd], raw[req.thd], mod,
                                 defined, req.pep484)
    /\ last' = [atype |-> "hint", u |-> req.thd, pep484 |-> req.pep484]
    /\ req' = NoReq
    /\ UNCHANGED <<qtvars, world, mod, status, root, raw, heap, stack, ret, defined,
                   written, parses, copies>>

\* pyiType for an argument with no annotation: lines 963-998
PyiType(atype, u, pep484) ==
    /\ Idle /\ req.thd = 0
    /\ output' = pyiTypeText(world, atype, u, mod, defined, pep484)
    /\ last' = [atype |-> atype, u |-> u, pep484 |-> pep484]
    /\ UNCHANGED <<qtvars, world, mod, status, root, raw, heap, stack, ret, defined,
                   written, req, parses, copies>>

\* the end of the next pyiClass or pyiMappedType of pyiModule: lines 497, 554
PyiClassEnd ==
    /\ Idle /\ req.thd = 0
    /\ written < Len(pyiModule(world, mod))
    /\ written' = written + 1
    /\ defined' = appendToIfaceFileList(defined, pyiModule(world, mod)[written + 1])
    /\ UNCHANGED <<qtvars, world, mod, status, root, raw, heap, stack, ret, req, output, last,
                   parses, copies>>

\* the arguments pyiType is called for: the type and what u points to
TypedArgs(w) ==
    ({"class_type"} \X (1..Len(Classes(w))))
    \cup ({"mapped_type"} \X (1..Len(MappedTypes(w))))
    \cup ({"enum_type"} \X (1..Len(Enums(w))))

Init ==
    /\ world \in Worlds
    /\ mod \in Modules(world)
    /\ status = [t \in ThdIds |-> "needs_parsing"]
    /\ root = [t \in ThdIds |-> 0]
    /\ raw = [t \in ThdIds |-> Hints(world)[t].raw_hint]
    /\ heap = <<>>
    /\ stack = <<>>
    /\ ret = NoRet
    /\ defined = <<>>
    /\ written = 0
    /\ req = NoReq
    /\ output = <<>>
    /\ last = NoLast
    /\ parses = [t \in ThdIds |-> 0]
    /\ copies = [t \in ThdIds |-> {}]
    /\ pySigList = [tx \in Transmitters |-> <<>>]
    /\ call = NoCall

\* the parser and the renderer run on once called
Step ==
    \/ ParseEntry
    \/ ParseScan
    \/ ParseChild
    \/ ParseName
    \/ ParseFlattened
    \/ ParseCopied
    \/ FlattenOuter
    \/ FlattenInner
    \/ PyiTypeHintWrite

Next ==
    \/ \E thd \in ArgHints(world), pep484 \in BOOLEAN : PyiTypeHint(thd, pep484)
    \/ \E a \in TypedArgs(world), pep484 \in BOOLEAN : PyiType(a[1], a[2], pep484)
    \/ PyiClassEnd
    \/ Step

Spec == Init /\ [][Next]_vars

\* the program is sequential: a call that has been made runs on
FairSpec == Spec /\ WF_vars(Step)

(***************************************************************************)
(* The Python signals of siplib/qtlib.c: sip_api_connect_rx and            *)
(* sip_api_disconnect_rx on the list of receivers a transmitter keeps for  *)
(* each of its Python signals.  A PyObject * is the name of the object,    *)
(* "NULL" is the null object pointer; a char * that is NULL is <<>>.       *)
(***************************************************************************)

\* the most receivers the transmitter holds
MaxReceivers == 2

\* the signals: two Python signals and a Qt signal
Signals == {<<"s">> \o <<NUL>>, <<"t">> \o <<NUL>>, <<"2", "q", "(", ")">> \o <<NUL>>}

\* the receivers a signal is connected to, rxObj and slot: a bound Python
\* method, a wrapped C++ method, a builtin function, a Python function, a
\* Qt slot name, a Qt signal name and a Python signal name
Receivers ==
    {<<"o.m", <<>>>>, <<"w.f", <<>>>>, <<"len", <<>>>>, <<"g", <<>>>>,
     <<"w", <<"1", "f", "(", ")">> \o <<NUL>>>>, <<"w", <<"2", "v", "(", ")">> \o <<NUL>>>>,
     <<"w", <<"p">> \o <<NUL>>>>}

PyMethod_Check(obj) == obj = "o.m"

PyMethod_GET_FUNCTION(obj) == IF obj = "o.m" THEN "m" ELSE NULL

PyMethod_GET_SELF(obj) == IF obj = "o.m" THEN "o" ELSE NULL

PyMethod_GET_CLASS(obj) == IF obj = "o.m" THEN "O" ELSE NULL

PyCFunction_Check(obj) == obj \in {"w.f", "len"}

\* the self of a builtin: the wrapper of a wrapped C++ method, NULL for a
\* builtin function
PyCFunction_GET_SELF(obj) == IF obj = "w.f" THEN "w" ELSE NULL

\* ((PyCFunctionObject *)obj)->m_ml->ml_name
ml_name(obj) ==
    IF obj = "w.f" THEN <<"f">> \o <<NUL>>
    ELSE IF obj = "len" THEN <<"l", "e", "n">> \o <<NUL>>
    ELSE <<>>

\* PyObject_TypeCheck(self, &sipSimpleWrapper_Type)
IsSimpleWrapper(obj) == obj \in {"w"} \cup Transmitters

isQtSlot(s) == s[1] = "1"

isQtSignal(s) == s[1] = "2"

\* sipQtSupport->qt_same_name: the two names are the same name
qt_same_name(s1, s2) == CString(s1, 1) = CString(s2, 1)

\* strcmp(s1 + from - 1, s2) == 0
SameString(s1, from, s2) == CString(s1, from) = CString(s2, 1)

\* getWeakRef: the weak reference to obj
getWeakRef(obj) == obj

\* the fields of a sipSlot that sip_api_save_slot leaves as malloc gave them
Uninitialised == "uninitialised"

NoMethod == [mfunc |-> Uninitialised, mself |-> Uninitialised,
             mclass |-> Uninitialised]

\* sipSaveMethod
sipSaveMethod(obj) ==
    [mfunc |-> PyMethod_GET_FUNCTION(obj), mself |-> PyMethod_GET_SELF(obj),
     mclass |-> PyMethod_GET_CLASS(obj)]

\* sipSlot
Slot(name, pyobj, meth, weakSlot) ==
    [name |-> name, pyobj |-> pyobj, meth |-> meth, weakSlot |-> weakSlot]

\* the allocations of a connect, one of which may fail
AllocFailures == {"none", "sipPySig", "signal name", "sipSlotList", "slot name"}

\* strchr(name, '('): the index of the bracket in the C string, or 0
StrchrOpen(name) ==
    LET hits == {i \in 1..strlen(name) : name[i] = "("}
    IN IF hits = {} THEN 0 ELSE CHOOSE i \in hits : \A j \in hits : i <= j

\* name[i - 1] = '\\0'
Overwritten(name, i) ==
    SubSeq(name, 1, i - 1) \o <<NUL>> \o SubSeq(name, i + 1, Len(name))

\* the Qt slot name as sip_api_save_slot stores it: the arguments are cut
\* off and the first character is overwritten with NUL
MarkedName(name) ==
    Overwritten(IF StrchrOpen(name) # 0
                THEN Overwritten(name, StrchrOpen(name)) ELSE name, 1)

\* sip_api_save_slot: the result and the slot it has initialised
sip_api_save_slot(rxObj, slot, fail) ==
    IF slot = <<>>
    THEN IF PyMethod_Check(rxObj)
         THEN [rc |-> 0,
               sp |-> Slot(<<>>, NULL, sipSaveMethod(rxObj),
                           getWeakRef(PyMethod_GET_SELF(rxObj)))]
         ELSE IF /\ PyCFunction_Check(rxObj)
                 /\ PyCFunction_GET_SELF(rxObj) # NULL
                 /\ IsSimpleWrapper(PyCFunction_GET_SELF(rxObj))
         THEN IF fail = "slot name"
              THEN [rc |-> -1, sp |-> Slot(<<>>, Uninitialised, NoMethod, NULL)]
              ELSE [rc |-> 0,
                    sp |-> Slot(<<NUL>> \o ml_name(rxObj),
                                PyCFunction_GET_SELF(rxObj), NoMethod,
                                getWeakRef(PyCFunction_GET_SELF(rxObj)))]
         ELSE [rc |-> 0, sp |-> Slot(<<>>, rxObj, NoMethod, "Py_True")]
    ELSE IF fail = "slot name"
    THEN [rc |-> -1, sp |-> Slot(<<>>, Uninitialised, NoMethod, NULL)]
    ELSE IF isQtSlot(slot)
    THEN [rc |-> 0,
          sp |-> Slot(MarkedName(slot), rxObj, NoMethod, getWeakRef(rxObj))]
    ELSE [rc |-> 0, sp |-> Slot(slot, rxObj, NoMethod, NULL)]

\* findPySignal: the index of the signal in the transmitter's list, or 0
findPySignal(list, sig) ==
    LET hits == {i \in 1..Len(list) : qt_same_name(list[i].name, sig)}
    IN IF hits = {} THEN 0 ELSE CHOOSE i \in hits : \A j \in hits : i <= j

\* isSameSlot
isSameSlot(slot1, rxobj2, slot2) ==
    IF slot2 # <<>>
    THEN IF slot1.name = <<>> \/ slot1.name[1] = NUL THEN FALSE
         ELSE qt_same_name(slot1.name, slot2) /\ slot1.pyobj = rxobj2
    ELSE IF PyMethod_Check(rxobj2)
    THEN IF slot1.pyobj # NULL THEN FALSE
         ELSE /\ slot1.meth.mfunc = PyMethod_GET_FUNCTION(rxobj2)
              /\ slot1.meth.mself = PyMethod_GET_SELF(rxobj2)
              /\ slot1.meth.mclass = PyMethod_GET_CLASS(rxobj2)
    ELSE IF PyCFunction_Check(rxobj2)
    THEN IF slot1.name = <<>> \/ slot1.name[1] # NUL THEN FALSE
         ELSE /\ slot1.pyobj = PyCFunction_GET_SELF(rxobj2)
              /\ SameString(slot1.name, 2, ml_name(rxobj2))
    ELSE slot1.pyobj = rxobj2

\* the signal list with the receiver list of its signal ps replaced
WithRxList(list, ps, rxlist) == [list EXCEPT ![ps].rxlist = rxlist]

\* addSlotToPySigList: the result and the transmitter's signal list
addSlotToPySigList(list, sig, rxObj, slot, fail) ==
    IF findPySignal(list, sig) = 0 /\ fail \in {"sipPySig", "signal name"}
    THEN [rc |-> -1, list |-> list]
    ELSE LET created == IF findPySignal(list, sig) = 0
                        THEN <<[name |-> sig, rxlist |-> <<>>]>> \o list
                        ELSE list
             ps == findPySignal(created, sig)
             saved == sip_api_save_slot(rxObj, slot, fail)
         IN IF fail = "sipSlotList" \/ saved.rc < 0
            THEN [rc |-> -1, list |-> created]
            ELSE [rc |-> 0,
                  list |-> WithRxList(created, ps,
                                      <<saved.sp>> \o created[ps].rxlist)]

\* the receiver list without its entry i
Unlinked(rxlist, i) ==
    SubSeq(rxlist, 1, i - 1) \o SubSeq(rxlist, i + 1, Len(rxlist))

\* the first entry of the receiver list that isSameSlot accepts, or 0
FirstSame(rxlist, rxObj, slot) ==
    LET hits == {i \in 1..Len(rxlist) : isSameSlot(rxlist[i], rxObj, slot)}
    IN IF hits = {} THEN 0 ELSE CHOOSE i \in hits : \A j \in hits : i <= j

\* removeSlotFromPySigList: the transmitter's signal list
removeSlotFromPySigList(list, sig, rxObj, slot) ==
    LET ps == findPySignal(list, sig)
    IN IF ps = 0 \/ FirstSame(list[ps].rxlist, rxObj, slot) = 0 THEN list
       ELSE WithRxList(list, ps,
                Unlinked(list[ps].rxlist,
                         FirstSame(list[ps].rxlist, rxObj, slot)))

\* the receiver list of a signal of a transmitter, empty if it has none
RxList(list, sig) ==
    IF findPySignal(list, sig) = 0 THEN <<>>
    ELSE list[findPySignal(list, sig)].rxlist

RECURSIVE CountReceivers(_, _)
CountReceivers(list, i) ==
    IF i > Len(list) THEN 0 ELSE Len(list[i].rxlist) + CountReceivers(list, i + 1)

\* how many receivers the transmitter holds
Connected == CountReceivers(pySigList["tx"], 1)

\* sip_api_connect_rx: a Qt signal is handed to the Qt support module, a
\* Python signal gets the receiver at the head of its list
sip_api_connect_rx(txObj, sig, rxObj, slot) ==
    /\ Connected < MaxReceivers
    /\ \/ /\ isQtSignal(sig)
          /\ pySigList' = pySigList
          /\ \E result \in {NULL, "Py_True", "Py_False"} :
                call' = [op |-> "connect", txObj |-> txObj, sig |-> sig,
                         rxObj |-> rxObj, slot |-> slot, result |-> result,
                         before |-> RxList(pySigList[txObj], sig)]
       \/ /\ ~isQtSignal(sig)
          /\ \E fail \in AllocFailures :
                \E added \in {addSlotToPySigList(pySigList[txObj], sig, rxObj,
                                                 slot, fail)} :
                   /\ pySigList' = [pySigList EXCEPT ![txObj] = added.list]
                   /\ call' = [op |-> "connect", txObj |-> txObj, sig |-> sig,
                               rxObj |-> rxObj, slot |-> slot,
                               result |-> IF added.rc < 0 THEN NULL
                                          ELSE "Py_True",
                               before |-> RxList(pySigList[txObj], sig)]
    /\ UNCHANGED <<world, mod, status, root, raw, heap, stack, ret, defined,
                   written, req, output, last, parses, copies>>

\* sip_api_disconnect_rx: a Qt signal is handed to the Qt support module,
\* a Python signal loses the first receiver of its list that is the same slot
sip_api_disconnect_rx(txObj, sig, rxObj, slot) ==
    /\ \/ /\ isQtSignal(sig)
          /\ pySigList' = pySigList
          /\ \E result \in {NULL, "Py_True", "Py_False"} :
                call' = [op |-> "disconnect", txObj |-> txObj, sig |-> sig,
                         rxObj |-> rxObj, slot |-> slot, result |-> result,
                         before |-> RxList(pySigList[txObj], sig)]
       \/ /\ ~isQtSignal(sig)
          /\ pySigList' =
                [pySigList EXCEPT ![txObj] =
                    removeSlotFromPySigList(pySigList[txObj], sig, rxObj, slot)]
          /\ call' = [op |-> "disconnect", txObj |-> txObj, sig |-> sig,
                      rxObj |-> rxObj, slot |-> slot, result |-> "Py_True",
                      before |-> RxList(pySigList[txObj], sig)]
    /\ UNCHANGED <<world, mod, status, root, raw, heap, stack, ret, defined,
                   written, req, output, last, parses, copies>>

\* no annotation is parsed or rendered while signals are connected
QtInit ==
    /\ world = "shared"
    /\ mod \in Modules(world)
    /\ status = [t \in ThdIds |-> "needs_parsing"]
    /\ root = [t \in ThdIds |-> 0]
    /\ raw = [t \in ThdIds |-> Hints(world)[t].raw_hint]
    /\ heap = <<>>
    /\ stack = <<>>
    /\ ret = NoRet
    /\ defined = <<>>
    /\ written = 0
    /\ req = NoReq
    /\ output = <<>>
    /\ last = NoLast
    /\ parses = [t \in ThdIds |-> 0]
    /\ copies = [t \in ThdIds |-> {}]
    /\ pySigList = [tx \in Transmitters |-> <<>>]
    /\ call = NoCall

QtNext ==
    \/ \E txObj \in Transmitters, sig \in Signals, rx \in Receivers :
          sip_api_connect_rx(txObj, sig, rx[1], rx[2])
    \/ \E txObj \in Transmitters, sig \in Signals, rx \in Receivers :
          sip_api_disconnect_rx(txObj, sig, rx[1], rx[2])

QtSpec == QtInit /\ [][QtNext]_vars



(***************************************************************************)
(* Properties.                                                             *)
(***************************************************************************)

\* the nodes that come after n in its sibling list
Followers(h, n) == Siblings(h, h[n].next, Len(h))

\* the sibling list of n comes back to n
LoopsBack(h, n) == \E i \in 1..Len(Followers(h, n)) : Followers(h, n)[i] = n

\* C1: resolving an annotation terminates: whenever parseTypeHint is
\* running (the call stack is not empty) it returns in the end (the call
\* stack is empty again), also for annotations that refer to each other and
\* for a symbol referenced twice inside one Union.
C1_Terminates == (~Idle) ~> Idle

\* C1: a run where flatten_unions walks a sibling list that loops back on
\* itself, so that its inner loop never reaches the end of the list.
C1_FlattenLoops ==
    /\ ~Idle
    /\ Top.kind = "flatten" /\ Top.pc = "inner"
    /\ Top.child # 0 /\ LoopsBack(heap, Top.child)

\* C2: once an annotation is parsed, no later step of any parse, lookup,
\* flattening or rendering changes its cached tree: the root stays the same
\* node and the structure below it (kinds, names, child lists in order)
\* stays the same.
C2_CacheReadOnly ==
    [][\A t \in ThdIds :
          status[t] = "parsed" /\ root[t] # 0
              => /\ status'[t] = "parsed"
                 /\ root'[t] = root[t]
                 /\ Tree(heap', root'[t]) = Tree(heap, root[t])]_vars

\* C2: the cached tree of A, parsed from "Union[int, str]", has a third
\* child after "Union[A, float]" has been resolved.
C2_CacheGrown ==
    /\ world = "shared" /\ Idle
    /\ status[1] = "parsed" /\ root[1] # 0
    /\ Len(ChildrenOf(heap, root[1])) = 3

\* C3: all the trees that references to one annotated symbol have been
\* handed, from whatever call site and with whatever resolutions in
\* between, are structurally equal: there is at most one such tree.
C3_SameTreeEveryTime == \A t \in ThdIds : Cardinality(copies[t]) <= 1

\* C3: A has been referenced from two call sites and the two trees handed
\* out differ.
C3_TwoTrees == world = "shared" /\ Idle /\ Cardinality(copies[1]) = 2

\* C4: the status of an annotation only moves from needs_parsing to
\* being_parsed and from being_parsed to parsed, and parseTypeHintNode is
\* started on the raw string of an annotation at most once, however often
\* the annotation is rendered or referenced and also when its parse failed.
C4_ParsedOnce ==
    /\ [](\A t \in ThdIds : parses[t] <= 1)
    /\ [][\A t \in ThdIds :
            status'[t] # status[t]
                => \/ status[t] = "needs_parsing" /\ status'[t] = "being_parsed"
                   \/ status[t] = "being_parsed" /\ status'[t] = "parsed"]_vars

\* C4: "List[int", whose parse failed and left the root empty, is rendered
\* again: pyiTypeHint has been called for it and no parse has been started.
C4_RenderedAgain ==
    /\ world = "unions" /\ Idle
    /\ req.thd = 6 /\ ret = NoRet
    /\ status[6] = "parsed" /\ root[6] = 0 /\ parses[6] = 1

\* the name parseTypeHintNode is about to look up with lookupType
LookedUp ==
    IF ~Idle /\ Top.kind = "parse" /\ Top.pc = "name"
       /\ Top.start # Top.name_end /\ ~Top.have_brackets
    THEN SubSeq(raw[Top.thd], Top.start, Top.name_end - 1)
    ELSE <<>>

\* the annotation of the class or mapped type that name refers to, whatever
\* the status of the annotation; 0 if the name refers to nothing annotated
Referred(name, out) ==
    LET found == lookupType(world, [t \in ThdIds |-> "parsed"], name, out)
    IN IF typingModule(name) = <<>> /\ found.kind = "copy" THEN found.thd ELSE 0

\* the next step looks up a symbol whose own annotation is in progress
InProgressRef ==
    /\ LookedUp # <<>>
    /\ Referred(LookedUp, Top.out) # 0
    /\ status[Referred(LookedUp, Top.out)] = "being_parsed"

\* annotation t belongs to a mapped type
OfMappedType(t) ==
    \E i \in 1..Len(MappedTypes(world)) :
        t \in {MappedTypes(world)[i].typehint_in, MappedTypes(world)[i].typehint_out}

\* annotation t belongs to the class that node n of heap h refers to
RefersToClassOf(h, n, t) ==
    /\ n # 0 /\ h[n].type = "class_node"
    /\ t \in {Classes(world)[h[n].ref].typehint_in,
              Classes(world)[h[n].ref].typehint_out}

\* C5 (as the code has it): when lookupType reaches a symbol whose own
\* annotation is in progress, no parse is started and no status changes;
\* for a mapped type no node is produced, for a class a reference to the
\* class is produced.  So "Dict[A, T]", with A annotated "Union[A, str]" and
\* T annotated "List[T]", renders as Dict[Union[A, str], List].
C5_InProgress ==
    /\ [][InProgressRef
            => /\ parses' = parses /\ status' = status
               /\ stack' = Below /\ ret'.ok
               /\ IF OfMappedType(Referred(LookedUp, Top.out))
                  THEN ret'.node = 0
                  ELSE RefersToClassOf(heap', ret'.node,
                                       Referred(LookedUp, Top.out))]_vars
    /\ [][world = "recursive"
            /\ last' = [atype |-> "hint", u |-> 7, pep484 |-> FALSE]
            => output' = <<"D", "i", "c", "t", "[", "U", "n", "i", "o", "n", "[", "A", ",", " ", "s", "t", "r", "]", ",", " ", "L", "i", "s", "t", "]">>]_vars

\* C5: both A and T have been resolved, each through a reference to itself,
\* and "Dict[A, T]" has been rendered.
C5_BothRendered ==
    /\ world = "recursive" /\ Idle
    /\ status[1] = "parsed" /\ status[4] = "parsed"
    /\ output = <<"D", "i", "c", "t", "[", "U", "n", "i", "o", "n", "[", "A", ",", " ", "s", "t", "r", "]", ",", " ", "L", "i", "s", "t", "]">>

\* C5 (as the specification has it): when lookupType reaches a symbol, class
\* or mapped type, whose own annotation is in progress, no parse is started
\* and no node is produced for that position.
C5_NoNode ==
    [][InProgressRef
         => parses' = parses /\ stack' = Below /\ ret'.node = 0]_vars

\* the nodes met on a walk of the tree below n, parents before children,
\* each node as often as there are paths to it
RECURSIVE Walk(_, _, _)
Walk(h, n, depth) ==
    IF depth = 0 THEN <<>>
    ELSE <<n>> \o Concat([i \in 1..Len(ChildrenOf(h, n)) |->
                              Walk(h, ChildrenOf(h, n)[i], depth - 1)],
                         Len(ChildrenOf(h, n)))

NoDuplicates(seq) == \A i, j \in 1..Len(seq) : i # j => seq[i] # seq[j]

\* the nodes of the trees of the parsed annotations
Live ==
    UNION {{Walk(heap, root[t], Len(heap))[i] :
                i \in 1..Len(Walk(heap, root[t], Len(heap)))} :
           t \in {u \in ThdIds : status[u] = "parsed" /\ root[u] # 0}}

\* C6: the trees of the parsed annotations are plain trees: no node is
\* reachable from a root by two paths, no sibling list comes back to one of
\* its nodes, and no node is in the child lists of two different parents.
C6_PlainTrees ==
    /\ \A t \in ThdIds :
          status[t] = "parsed" /\ root[t] # 0
              => NoDuplicates(Walk(heap, root[t], Len(heap)))
    /\ \A n \in 1..Len(heap) : ~LoopsBack(heap, n)
    /\ \A p, q \in Live :
          p # q /\ heap[p].children # 0
              => heap[p].children # heap[q].children

\* C6: in the tree of "Tuple[A, A]", with A annotated "List[int]", the one
\* node int is the child of both List nodes.
C6_SharedChild ==
    /\ world = "unions" /\ Idle
    /\ status[4] = "parsed" /\ root[4] # 0
    /\ Len(ChildrenOf(heap, root[4])) = 2
    /\ ChildrenOf(heap, root[4])[1] # ChildrenOf(heap, root[4])[2]
    /\ heap[ChildrenOf(heap, root[4])[1]].children # 0
    /\ heap[ChildrenOf(heap, root[4])[1]].children
           = heap[ChildrenOf(heap, root[4])[2]].children

\* the names of the children of node n, in order
ChildNames(h, n) ==
    [i \in 1..Len(ChildrenOf(h, n)) |-> h[ChildrenOf(h, n)[i]].name]

\* node n is a Union node that has a Union node among its children
NestedUnion(h, n) ==
    /\ h[n].type = "typing_node" /\ h[n].name = <<"U", "n", "i", "o", "n">>
    /\ \E i \in 1..Len(ChildrenOf(h, n)) :
          /\ h[ChildrenOf(h, n)[i]].type = "typing_node"
          /\ h[ChildrenOf(h, n)[i]].name = <<"U", "n", "i", "o", "n">>

\* C7: in the tree of a parsed annotation no Union node has a Union node
\* as a child: the children of such a child stand in its place, in their
\* order.  "Union[Union[int, str], float]" has the same tree as
\* "Union[int, str, float]", and "Union[A, float]", with A annotated
\* "Union[int, str]", has the children int, str, float.
C7_Flattened ==
    /\ \A n \in Live : ~NestedUnion(heap, n)
    /\ world = "unions" /\ status[2] = "parsed" /\ status[3] = "parsed"
          => /\ root[2] # 0 /\ root[3] # 0
             /\ Tree(heap, root[2]) = Tree(heap, root[3])
             /\ ChildNames(heap, root[2]) = <<<<"i", "n", "t">>, <<"s", "t", "r">>, <<"f", "l", "o", "a", "t">>>>
    /\ world = "shared" /\ status[2] = "parsed"
          => /\ root[2] # 0
             /\ SubSeq(ChildNames(heap, root[2]), 1, 3)
                    = <<<<"i", "n", "t">>, <<"s", "t", "r">>, <<"f", "l", "o", "a", "t">>>>

\* C7: both "Union[Union[int, str], float]" and "Union[int, str, float]"
\* have been parsed.
C7_BothParsed ==
    /\ world = "unions" /\ Idle
    /\ status[2] = "parsed" /\ status[3] = "parsed"
    /\ Len(ChildrenOf(heap, root[2])) = 3

\* the interface file is in the Emission Ledger of the module being written
InLedger(iff) == \E i \in 1..Len(defined) : defined[i] = iff

\* class cd and the classes that enclose it
RECURSIVE Enclosing(_)
Enclosing(cd) ==
    IF cd = 0 THEN {} ELSE {cd} \cup Enclosing(Classes(world)[cd].ecd)

AllInLedger(cds) == \A c \in cds : InLedger(Classes(world)[c].iff)

Unquoted(text) == text # <<>> /\ text[1] # "'"

\* this step is the rendering call pyiType(atype, u) or, for atype "hint",
\* pyiTypeHint(u)
Renders(atype, u, pep484) ==
    /\ last' = [atype |-> atype, u |-> u, pep484 |-> pep484]
    /\ defined' = defined /\ written' = written

\* the alternatives of an interface file in the order of their declaration
RECURSIVE Alternatives(_)
Alternatives(iff) ==
    IF iff = 0 THEN <<>>
    ELSE <<iff>> \o Alternatives(Iffs(world)[iff].next_alt)

\* the range holds the revision: a bound of 0 is no bound
Contains(range, revision) ==
    /\ range[1] = 0 \/ range[1] <= revision
    /\ range[2] = 0 \/ revision < range[2]

\* the interface file C11 says is selected for iff; 0 if there is none
Selected(iff) ==
    IF Iffs(world)[iff].api_range = <<>> THEN iff
    ELSE LET alts == Alternatives(Iffs(world)[iff].first_alt)
             hits == {i \in 1..Len(alts) :
                        Contains(Iffs(world)[alts[i]].api_range,
                                 DefaultAPI(world))}
         IN IF hits = {} THEN 0
            ELSE alts[CHOOSE i \in hits : \A j \in hits : i <= j]

ClassOf(iff) == CHOOSE cd \in 1..Len(Classes(world)) : Classes(world)[cd].iff = iff

OtherModule(iff) == Iffs(world)[iff].module # mod

\* the class has an implementation at the default revision, and which one:
\* the class a reference to it names
Implemented(cd) == Selected(Classes(world)[cd].iff) # 0

Implementation(cd) == ClassOf(Selected(Classes(world)[cd].iff))

\* C8 (as the code has it): in PEP 484 rendering a reference to a class is
\* unquoted exactly if the class is of another module, or is external, or
\* is in the ledger together with every class that encloses it; a reference
\* to an enum is unquoted exactly if the enum is of another module, or is at
\* module level, or the class that encloses it is in the ledger together
\* with every class that encloses that one, or the mapped type that
\* encloses it is in the ledger.
C8_Quoting ==
    [][/\ \A cd \in 1..Len(Classes(world)) :
             Renders("class_type", cd, TRUE) /\ Implemented(cd)
                 => (Unquoted(output')
                        <=> \/ OtherModule(Classes(world)[Implementation(cd)].iff)
                            \/ Classes(world)[Implementation(cd)].external
                            \/ AllInLedger(Enclosing(Implementation(cd))))
       /\ \A ed \in 1..Len(Enums(world)) :
             Renders("enum_type", ed, TRUE)
                 => (Unquoted(output')
                        <=> \/ Enums(world)[ed].module # mod
                            \/ Enums(world)[ed].ecd = 0 /\ Enums(world)[ed].emtd = 0
                            \/ /\ Enums(world)[ed].ecd # 0
                               /\ AllInLedger(Enclosing(Enums(world)[ed].ecd))
                            \/ /\ Enums(world)[ed].emtd # 0
                               /\ InLedger(MappedTypes(world)[Enums(world)[ed].emtd].iff))
      ]_vars

\* C8: P.Q has been rendered with quotes although Q is in the ledger: P,
\* which encloses it, is not.
C8_QuotedInLedger ==
    /\ world = "scopes" /\ mod = "M"
    /\ last = [atype |-> "class_type", u |-> 2, pep484 |-> TRUE]
    /\ InLedger(Classes(world)[2].iff) /\ ~InLedger(Classes(world)[1].iff)
    /\ output = <<"'", "P", ".", "Q", "'">>

\* C8 (as the specification has it): in PEP 484 rendering a reference to a
\* class is unquoted exactly if the class is of another module or is in the
\* ledger of the module being written.
C8_LedgerOnly ==
    [][\A cd \in 1..Len(Classes(world)) :
          Renders("class_type", cd, TRUE)
              => (Unquoted(output')
                     <=> \/ OtherModule(Classes(world)[cd].iff)
                         \/ InLedger(Classes(world)[cd].iff))]_vars

\* symbols of the module being written that have an enclosing scope
NestedClasses ==
    {cd \in 1..Len(Classes(world)) :
        /\ Classes(world)[cd].ecd # 0
        /\ ~OtherModule(Classes(world)[cd].iff)
        /\ ~Classes(world)[cd].external}

NestedEnums ==
    {ed \in 1..Len(Enums(world)) :
        /\ Enums(world)[ed].module = mod
        /\ Enums(world)[ed].ecd # 0 \/ Enums(world)[ed].emtd # 0}

\* the scopes of enum ed are in the ledger: the class that encloses it and
\* every class that encloses that one, or the mapped type that encloses it
EnumScopesInLedger(ed) ==
    IF Enums(world)[ed].ecd # 0
    THEN AllInLedger(Enclosing(Enums(world)[ed].ecd))
    ELSE InLedger(MappedTypes(world)[Enums(world)[ed].emtd].iff)

\* the enum itself is in the ledger: never, the ledger is a list of
\* interface files of classes and mapped types and pyiEnums adds nothing to it
EnumInLedger(ed) == FALSE

\* C9 (as the code has it): a reference to a class of the module being
\* written that has enclosing scopes is unquoted exactly if the class and
\* every class that encloses it are in the ledger; a reference to an enum
\* that has enclosing scopes is unquoted exactly if every one of its scopes
\* is in the ledger, the enum itself never being in it.  So "P.Q" renders
\* as P.Q once Q and P are both in the ledger and as 'P.Q' before.
C9_EnclosingScopes ==
    [][/\ \A cd \in NestedClasses :
             Renders("class_type", cd, TRUE)
                 => (Unquoted(output') <=> AllInLedger(Enclosing(cd)))
       /\ \A ed \in NestedEnums :
             Renders("enum_type", ed, TRUE)
                 => (Unquoted(output') <=> EnumScopesInLedger(ed))
       /\ world = "scopes" /\ mod = "M" /\ Renders("hint", 3, TRUE)
             => output' = IF InLedger(1) /\ InLedger(2) THEN <<"P", ".", "Q">>
                          ELSE <<"'", "P", ".", "Q", "'">>
      ]_vars

\* C9: the enum P.Q.K has been rendered without quotes: Q, which encloses
\* it, and P, which encloses Q, are in the ledger.
C9_NestedEnumUnquoted ==
    /\ world = "scopes" /\ mod = "M"
    /\ last = [atype |-> "enum_type", u |-> 5, pep484 |-> TRUE]
    /\ InLedger(1) /\ InLedger(2)
    /\ output = <<"P", ".", "Q", ".", "K">>

\* C9 (as the specification has it): a reference to a class or an enum of
\* the module being written that has enclosing scopes is unquoted only if
\* the symbol itself and every one of its enclosing scopes are in the
\* ledger, and is quoted otherwise.
C9_SymbolAndScopes ==
    [][/\ \A cd \in NestedClasses :
             Renders("class_type", cd, TRUE)
                 => (Unquoted(output') <=> AllInLedger(Enclosing(cd)))
       /\ \A ed \in NestedEnums :
             Renders("enum_type", ed, TRUE)
                 => (Unquoted(output')
                        <=> EnumInLedger(ed) /\ EnumScopesInLedger(ed))
      ]_vars

\* C10 (as the code has it): "Dict[str, MyEnum]", MyEnum being an enum at
\* the level of the module being written, renders in PEP 484 mode as
\* typing.Dict[str, MyEnum] whatever the ledger holds, and as
\* Dict[str, MyEnum] in docstring mode.  "Dict[str, P.F]", F being an enum
\* of class P, renders as typing.Dict[str, 'P.F'] until P is in the ledger
\* and as typing.Dict[str, P.F] from then on.
C10_DictOfEnum ==
    [][world = "scopes" /\ mod = "M"
         => /\ Renders("hint", 1, TRUE)
                  => output' = <<"t", "y", "p", "i", "n", "g", ".", "D", "i", "c", "t", "[", "s", "t", "r", ",", " ", "M", "y", "E", "n", "u", "m", "]">>
            /\ Renders("hint", 1, FALSE)
                  => output' = <<"D", "i", "c", "t", "[", "s", "t", "r", ",", " ", "M", "y", "E", "n", "u", "m", "]">>
            /\ Renders("hint", 2, TRUE)
                  => output' = IF InLedger(1) THEN <<"t", "y", "p", "i", "n", "g", ".", "D", "i", "c", "t", "[", "s", "t", "r", ",", " ", "P", ".", "F", "]">>
                               ELSE <<"t", "y", "p", "i", "n", "g", ".", "D", "i", "c", "t", "[", "s", "t", "r", ",", " ", "'", "P", ".", "F", "'", "]">>
      ]_vars

\* C10: "Dict[str, MyEnum]" has been rendered in PEP 484 mode, without
\* quotes, while the ledger was empty.
C10_UnquotedEarly ==
    /\ world = "scopes" /\ mod = "M"
    /\ last = [atype |-> "hint", u |-> 1, pep484 |-> TRUE]
    /\ defined = <<>>
    /\ output = <<"t", "y", "p", "i", "n", "g", ".", "D", "i", "c", "t", "[", "s", "t", "r", ",", " ", "M", "y", "E", "n", "u", "m", "]">>

\* C10 (as the specification has it): while nothing of MyEnum is in the
\* ledger, "Dict[str, MyEnum]" renders in PEP 484 mode with MyEnum in
\* quotes, with or without the typing prefix.
C10_QuotedUntilInLedger ==
    [][world = "scopes" /\ mod = "M" /\ defined = <<>>
         /\ Renders("hint", 1, TRUE)
         => output' \in {<<"D", "i", "c", "t", "[", "s", "t", "r", ",", " ", "'", "M", "y", "E", "n", "u", "m", "'", "]">>,
                         <<"t", "y", "p", "i", "n", "g", ".", "D", "i", "c", "t", "[", "s", "t", "r", ",", " ", "'", "M", "y", "E", "n", "u", "m", "'", "]">>}]_vars

\* C11: an argument whose type is a class renders as the reference to the
\* class selected for it: the class itself when it has no alternatives,
\* else the first alternative in declaration order whose range holds the
\* default revision (a bound of 0 is no bound, else lower <= revision <
\* upper), and as the any-type when no range holds it; the ledger only ever
\* holds selected interface files.  With [0,5) and [5,unbounded) revision 4
\* selects the first and revision 5 the second; of the overlapping [3,8)
\* and [4,unbounded) the earlier one is selected at both revisions.
C11_DefaultImplementation ==
    [][/\ \A cd \in 1..Len(Classes(world)), pep484 \in BOOLEAN :
             Renders("class_type", cd, pep484)
                 => output' =
                      IF Selected(Classes(world)[cd].iff) = 0
                      THEN anyObject(pep484)
                      ELSE prClassRef(world,
                                      ClassOf(Selected(Classes(world)[cd].iff)),
                                      mod, defined, pep484)
       /\ \A i \in 1..Len(defined') :
             \E iff \in 1..Len(Iffs(world)) : Selected(iff) = defined'[i]
       /\ world \in {"api4", "api5"}
             => /\ Selected(1) = IF world = "api4" THEN 1 ELSE 2
                /\ Selected(2) = Selected(1)
                /\ Selected(3) = 3 /\ Selected(4) = 3
                /\ Selected(5) = 0
                /\ Selected(7) = 7
                /\ \A cd \in {1, 2} :
                      Renders("class_type", cd, TRUE)
                          => (Unquoted(output') <=> InLedger(Selected(1)))
      ]_vars

\* C11: at revision 5 an argument of the class with range [0,5) has been
\* rendered as the reference to its alternative with range [5,unbounded),
\* which was in the ledger, and the class with range [0,5) was not.
C11_SecondSelected ==
    /\ world = "api5"
    /\ last = [atype |-> "class_type", u |-> 1, pep484 |-> TRUE]
    /\ output = <<"V">>
    /\ InLedger(2) /\ ~InLedger(1)

\* C12 (as the code has it): a malformed bracket construct in one subtree
\* makes the parse of the whole annotation fail: "Dict[A, List[A]x]", A
\* being a class, has no tree once parsed and renders in both modes as its
\* raw text, with no typing prefix and with the sibling A as it is written,
\* whatever the ledger holds.
C12_WholeAnnotationVerbatim ==
    [][world = "malformed"
         => \A pep484 \in BOOLEAN :
               Renders("hint", 1, pep484)
                   => /\ root[1] = 0
                      /\ output' = <<"D", "i", "c", "t", "[", "A", ",", " ", "L", "i", "s", "t", "[", "A", "]", "x", "]">>]_vars

\* C12: "Dict[A, List[A]x]" has been rendered in PEP 484 mode as its raw
\* text while class A was in the ledger.
C12_RenderedVerbatim ==
    /\ world = "malformed"
    /\ last = [atype |-> "hint", u |-> 1, pep484 |-> TRUE]
    /\ status[1] = "parsed" /\ root[1] = 0
    /\ InLedger(1)
    /\ output = <<"D", "i", "c", "t", "[", "A", ",", " ", "L", "i", "s", "t", "[", "A", "]", "x", "]">>

\* C12 (as the specification has it): only the malformed subtree of
\* "Dict[A, List[A]x]" is rendered as its raw text; the annotation has a
\* tree, and in PEP 484 mode it renders as the Dict of the typing module with
\* the reference to class A as its first child.
C12_OnlySubtreeOpaque ==
    [][world = "malformed" /\ Renders("hint", 1, TRUE)
         => /\ root[1] # 0
            /\ output' = <<"t", "y", "p", "i", "n", "g", ".", "D", "i", "c", "t", "[">>
                            \o prClassRef(world, 1, mod, defined, TRUE)
                            \o <<",", " ", "L", "i", "s", "t", "[", "A", "]", "x", "]">>]_vars

\* the text of a raw string up to its terminator
RawText(t) == CString(raw[t], 1)

\* C13 (as the code has it): an annotation that has no tree once parsed
\* renders as the text of its raw string (the any-type if that text is
\* Any), never by structural inference: the annotation "Union" renders as
\* Union in both modes, which is the rendering of no class, mapped type or
\* enum the argument could be declared as.
C13_NoTreeRendersRawText ==
    [][\A t \in ThdIds, pep484 \in BOOLEAN :
          Renders("hint", t, pep484) /\ root[t] = 0
              => /\ output' = IF RawText(t) = <<"A", "n", "y">> THEN anyObject(pep484)
                               ELSE RawText(t)
                 /\ world = "malformed" /\ t = 2
                       => /\ output' = <<"U", "n", "i", "o", "n">>
                          /\ \A a \in TypedArgs(world) :
                                output' # pyiTypeText(world, a[1], a[2], mod,
                                                      defined, pep484)]_vars

\* C13: the annotation "Union" has been parsed into no tree and rendered
\* in PEP 484 mode as Union.
C13_BareUnionRendered ==
    /\ world = "malformed"
    /\ last = [atype |-> "hint", u |-> 2, pep484 |-> TRUE]
    /\ status[2] = "parsed" /\ root[2] = 0
    /\ output = <<"U", "n", "i", "o", "n">>

\* C13 (as the specification has it): an annotation that has no tree once
\* parsed renders as structural inference renders the declared type of the
\* argument, here the one class of the module.
C13_FallsBackToInference ==
    [][\A t \in ThdIds, pep484 \in BOOLEAN :
          world = "malformed" /\ Renders("hint", t, pep484) /\ root[t] = 0
              => output' = pyiTypeText(world, "class_type", 1, mod, defined,
                                       pep484)]_vars

\* C14: once parseTypeHint has returned for an annotation, with or without
\* a tree, its raw string is character for character the one the
\* specification files gave.
C14_RawStringRestored ==
    \A t \in ThdIds :
        status[t] = "parsed" => raw[t] = Hints(world)[t].raw_hint

\* C14: "List[Union]" has been parsed and its raw string now ends after
\* List[Union: the terminator written over the closing bracket to isolate
\* the name Union is still there.
C14_TerminatorLeft ==
    /\ world = "malformed" /\ Idle
    /\ status[3] = "parsed"
    /\ RawText(3) = <<"L", "i", "s", "t", "[", "U", "n", "i", "o", "n">>
    /\ raw[3] # Hints(world)[3].raw_hint

\* C15 (as the code has it): class U, with the one range [7,9), and mapped
\* type T, with the one range [6,unbounded), have no implementation at
\* revisions 4 and 5.  An argument whose declared type is U or T renders as
\* the any-type of the mode.  The names U and T inside the annotation
\* "Dict[U, T]" are not found by the lookups and render verbatim.
C15_NoImplementation ==
    [][(world = "api4" \/ world = "api5")
         => \A pep484 \in BOOLEAN :
               /\ Renders("class_type", 5, pep484)
                     => output' = IF pep484 THEN <<"t", "y", "p", "i", "n", "g", ".", "A", "n", "y">> ELSE <<"o", "b", "j", "e", "c", "t">>
               /\ Renders("mapped_type", 1, pep484)
                     => output' = IF pep484 THEN <<"t", "y", "p", "i", "n", "g", ".", "A", "n", "y">> ELSE <<"o", "b", "j", "e", "c", "t">>
               /\ Renders("hint", 2, pep484)
                     => output' = IF pep484 THEN <<"t", "y", "p", "i", "n", "g", ".", "D", "i", "c", "t", "[", "U", ",", " ", "T", "]">>
                                  ELSE <<"D", "i", "c", "t", "[", "U", ",", " ", "T", "]">>
      ]_vars

\* C15: "Dict[U, T]" has been rendered in PEP 484 mode with the names of
\* the class and the mapped type that have no implementation in it.
C15_NamesVerbatim ==
    /\ world = "api4"
    /\ Selected(5) = 0 /\ Selected(6) = 0
    /\ last = [atype |-> "hint", u |-> 2, pep484 |-> TRUE]
    /\ output = <<"t", "y", "p", "i", "n", "g", ".", "D", "i", "c", "t", "[", "U", ",", " ", "T", "]">>

\* C15 (as the specification has it): the names of a class and of a mapped
\* type with no implementation render, inside an annotation too, as the
\* any-type of the mode.
C15_AnyTypeEverywhere ==
    [][(world = "api4" \/ world = "api5")
         => \A pep484 \in BOOLEAN :
               Renders("hint", 2, pep484)
                   => output' = IF pep484
                                THEN <<"t", "y", "p", "i", "n", "g", ".", "D", "i", "c", "t", "[", "t", "y", "p", "i", "n", "g", ".", "A", "n", "y", ",", " ", "t", "y", "p", "i", "n", "g", ".", "A", "n", "y", "]">>
                                ELSE <<"D", "i", "c", "t", "[", "o", "b", "j", "e", "c", "t", ",", " ", "o", "b", "j", "e", "c", "t", "]">>
      ]_vars

\* C16: the annotation "Any" renders as the any-type of the mode, and so
\* does the child Any of "Dict[Any, Foo]", next to which the unrecognised
\* token Foo renders verbatim.
C16_AnyToken ==
    [][world = "tokens"
         => \A pep484 \in BOOLEAN :
               /\ Renders("hint", 1, pep484)
                     => output' = IF pep484 THEN <<"t", "y", "p", "i", "n", "g", ".", "A", "n", "y">> ELSE <<"o", "b", "j", "e", "c", "t">>
               /\ Renders("hint", 2, pep484)
                     => output' = IF pep484 THEN <<"t", "y", "p", "i", "n", "g", ".", "D", "i", "c", "t", "[", "t", "y", "p", "i", "n", "g", ".", "A", "n", "y", ",", " ", "F", "o", "o", "]">>
                                  ELSE <<"D", "i", "c", "t", "[", "o", "b", "j", "e", "c", "t", ",", " ", "F", "o", "o", "]">>
      ]_vars

\* C16: the annotation "Any" has been parsed into a node of the typing
\* module and rendered in docstring mode as Any.
C16_AnyInDocstring ==
    /\ world = "tokens"
    /\ last = [atype |-> "hint", u |-> 1, pep484 |-> FALSE]
    /\ root[1] # 0 /\ heap[root[1]].type = "typing_node"
    /\ output = <<"A", "n", "y">>

\* C17: a name that the lookups do not resolve renders verbatim, as the
\* full original name with all its segments and dots: "List[P.]" (class P
\* followed by a dot and nothing) and "Dict[P.Nope, P.F.x]" (no Nope in P;
\* enum F of P with a segment left) render with the names as written.
C17_FullOriginalName ==
    [][world = "names"
         => \A pep484 \in BOOLEAN :
               /\ Renders("hint", 2, pep484)
                     => output' = IF pep484 THEN <<"t", "y", "p", "i", "n", "g", ".", "L", "i", "s", "t", "[", "P", ".", "]">>
                                  ELSE <<"L", "i", "s", "t", "[", "P", ".", "]">>
               /\ Renders("hint", 3, pep484)
                     => output' = IF pep484 THEN <<"t", "y", "p", "i", "n", "g", ".", "D", "i", "c", "t", "[", "P", ".", "N", "o", "p", "e", ",", " ", "P", ".", "F", ".", "x", "]">>
                                  ELSE <<"D", "i", "c", "t", "[", "P", ".", "N", "o", "p", "e", ",", " ", "P", ".", "F", ".", "x", "]">>
      ]_vars

\* C17: the name P. of "List[P.]" has become an other node named P.. and
\* the annotation has been rendered as typing.List[P..].
C17_DotAdded ==
    /\ world = "names"
    /\ last = [atype |-> "hint", u |-> 2, pep484 |-> TRUE]
    /\ output = <<"t", "y", "p", "i", "n", "g", ".", "L", "i", "s", "t", "[", "P", ".", ".", "]">>

\* C18 (as the code has it): the lookup of a name of an annotation starts
\* at the global level wherever the annotated symbol is.  Q being only the
\* name of a class nested in class P, the annotation "Q" (of a method of P,
\* say) resolves to no class: its tree is an other node and it renders as Q
\* whatever the ledger holds.  Only the qualified name resolves: "P.Q"
\* renders as the reference to the nested class.
C18_GlobalScopeOnly ==
    [][\A pep484 \in BOOLEAN :
          /\ world = "names" /\ Renders("hint", 1, pep484)
                => /\ root[1] # 0
                   /\ heap[root[1]].type = "other_node"
                   /\ output' = <<"Q">>
          /\ world = "scopes" /\ Renders("hint", 3, pep484)
                => /\ root[3] # 0
                   /\ heap[root[3]].type = "class_node"
                   /\ heap[root[3]].ref = 2
                   /\ output' = prClassRef(world, 2, mod, defined, pep484)]_vars

\* C18: the annotation "Q" has been rendered in PEP 484 mode as the bare
\* text Q while class P and its nested class Q were in the ledger.
C18_NestedNotFound ==
    /\ world = "names"
    /\ Classes(world)[2].pyname = <<"Q">> /\ Classes(world)[2].ecd = 1
    /\ last = [atype |-> "hint", u |-> 1, pep484 |-> TRUE]
    /\ InLedger(1) /\ InLedger(2)
    /\ heap[root[1]].type = "other_node"
    /\ output = <<"Q">>

\* C18 (as the specification has it): the unqualified name Q in an
\* annotation of a member of class P resolves to the class Q nested in P.
C18_EnclosingScopeFirst ==
    [][\A pep484 \in BOOLEAN :
          world = "names" /\ Renders("hint", 1, pep484)
              => /\ root[1] # 0
                 /\ heap[root[1]].type = "class_node"
                 /\ heap[root[1]].ref = 2]_vars

\* the classes of which iff is the interface file
ClassesOf(iff) == {cd \in 1..Len(Classes(world)) : Classes(world)[cd].iff = iff}

\* every class that is written nested in a class of iff is in the ledger
NestedInLedger(iff) ==
    \A cd \in ClassesOf(iff), n \in 1..Len(Classes(world)) :
        Classes(world)[n].ecd = cd /\ ~Classes(world)[n].no_typehint
            => InLedger(Classes(world)[n].iff)

\* C19: the ledger of the module being written is empty until the first
\* class or mapped type has been written, holds interface files of that
\* module only, and changes only by one interface file being appended at
\* its end: that of a class or mapped type of the module, once the classes
\* nested in it have been written and are in the ledger themselves.
C19_LedgerGrows ==
    [][/\ written = 0 => defined = <<>>
       /\ \A i \in 1..Len(defined') : Iffs(world)[defined'[i]].module = mod
       /\ mod' = mod
       /\ \/ defined' = defined
          \/ \E iff \in 1..Len(Iffs(world)) :
                /\ defined' = Append(defined, iff)
                /\ ~InLedger(iff)
                /\ NestedInLedger(iff)
      ]_vars

\* C19: module M of the world "scopes" has been written: class S, nested
\* in Q, was appended first, then Q, nested in P, then P.
C19_InnermostFirst ==
    /\ world = "scopes" /\ mod = "M"
    /\ Len(defined) >= 3
    /\ SubSeq(defined, 1, 3) = <<6, 2, 1>>

\* the texts of a sequence, from the i-th on, with a comma and a space
\* between them
RECURSIVE Joined(_, _)
Joined(texts, i) ==
    IF i > Len(texts) THEN <<>>
    ELSE (IF i > 1 THEN <<",", " ">> ELSE <<>>) \o texts[i] \o Joined(texts, i + 1)

\* the text C20 gives for a tree: a node of the typing module is its keyword
\* (after "typing." in PEP 484 mode) and, if it has children, their texts
\* in one bracket pair; empty brackets are "[]"
RECURSIVE Rendered(_, _)
Rendered(tree, pep484) ==
    CASE tree.type = "typing_node" ->
            (IF pep484 THEN <<"t", "y", "p", "i", "n", "g", ".">> ELSE <<>>) \o tree.name
            \o (IF Len(tree.kids) >= 1
                THEN <<"[">>
                     \o Joined([i \in 1..Len(tree.kids) |->
                                   Rendered(tree.kids[i], pep484)], 1)
                     \o <<"]">>
                ELSE <<>>)
      [] tree.type = "brackets_node" -> <<"[", "]">>
      [] tree.type = "class_node" ->
            prClassRef(world, tree.ref, mod, defined, pep484)
      [] tree.type = "enum_node" ->
            prEnumRef(world, tree.ref, mod, defined, pep484)
      [] OTHER -> tree.name

\* C20: an annotation with a tree renders as the text of its tree: a node
\* of the typing module as its keyword followed, if it has children, by the
\* children in order, separated by commas, in one bracket pair, and as the
\* bare keyword if it has none; empty brackets as "[]".  So
\* "Callable[[], List]" renders as typing.Callable[[], typing.List] in PEP
\* 484 mode and as Callable[[], List] in docstring mode.
C20_GenericAndBrackets ==
    [][\A t \in ThdIds, pep484 \in BOOLEAN :
          Renders("hint", t, pep484) /\ root[t] # 0
              => /\ output' = Rendered(Tree(heap, root[t]), pep484)
                 /\ world = "tokens" /\ t = 3
                       => output' = IF pep484
                                    THEN <<"t", "y", "p", "i", "n", "g", ".", "C", "a", "l", "l", "a", "b", "l", "e", "[", "[", "]", ",", " ", "t", "y", "p", "i", "n", "g", ".", "L", "i", "s", "t", "]">>
                                    ELSE <<"C", "a", "l", "l", "a", "b", "l", "e", "[", "[", "]", ",", " ", "L", "i", "s", "t", "]">>
      ]_vars

\* C20: "Callable[[], List]" has been parsed into Callable with two
\* children, empty brackets and a List with no children, and rendered in
\* PEP 484 mode.
C20_BareKeywordAndBrackets ==
    /\ world = "tokens"
    /\ last = [atype |-> "hint", u |-> 3, pep484 |-> TRUE]
    /\ root[3] # 0
    /\ Len(Tree(heap, root[3]).kids) = 2
    /\ Tree(heap, root[3]).kids[1].type = "brackets_node"
    /\ Tree(heap, root[3]).kids[2].type = "typing_node"
    /\ Tree(heap, root[3]).kids[2].kids = <<>>
    /\ output = <<"t", "y", "p", "i", "n", "g", ".", "C", "a", "l", "l", "a", "b", "l", "e", "[", "[", "]", ",", " ", "t", "y", "p", "i", "n", "g", ".", "L", "i", "s", "t", "]">>

\* the annotation is one identifier: no bracket, no dot, no keyword of the
\* typing module
BareName(t) ==
    LET text == CString(Hints(world)[t].raw_hint, 1)
    IN /\ text # <<>>
       /\ \A i \in 1..Len(text) : text[i] \notin {"[", "]", ".", ",", " "}
       /\ text \notin TypingNames

HintText(t) == CString(Hints(world)[t].raw_hint, 1)

\* the index of the first opening bracket of a text; 0 if it has none
FirstOpen(text) ==
    IF \E i \in 1..Len(text) : text[i] = "["
    THEN CHOOSE i \in 1..Len(text) :
            text[i] = "[" /\ \A j \in 1..(i - 1) : text[j] # "["
    ELSE 0

\* the index of the closing bracket that matches the bracket opened before
\* i, depth being the number of brackets opened since; 0 if there is none
RECURSIVE MatchingClose(_, _, _)
MatchingClose(text, i, depth) ==
    IF i > Len(text) THEN 0
    ELSE IF text[i] = "[" THEN MatchingClose(text, i + 1, depth + 1)
    ELSE IF text[i] = "]"
    THEN IF depth = 0 THEN i ELSE MatchingClose(text, i + 1, depth - 1)
    ELSE MatchingClose(text, i + 1, depth)

\* C22: an annotation with a bracket is parsed into a tree only if the
\* closing bracket that matches its first opening bracket is its last
\* character.
C22_MatchingBracketLast ==
    \A t \in ThdIds :
        status[t] = "parsed" /\ root[t] # 0 /\ FirstOpen(HintText(t)) # 0
            => MatchingClose(HintText(t), FirstOpen(HintText(t)) + 1, 0)
                   = Len(HintText(t))

\* C22: "List[int][str]", whose first bracket closes after int, has been
\* parsed into a tree and rendered in docstring mode as List[int]: the
\* text [str] is gone.
C22_TextDropped ==
    /\ world = "brackets"
    /\ MatchingClose(HintText(1), FirstOpen(HintText(1)) + 1, 0) = 9
    /\ Len(HintText(1)) = 14
    /\ status[1] = "parsed" /\ root[1] # 0
    /\ last = [atype |-> "hint", u |-> 1, pep484 |-> FALSE]
    /\ output = <<"L", "i", "s", "t", "[", "i", "n", "t", "]">>

\* a text without the spaces at its two ends
RECURSIVE Stripped(_)
Stripped(text) ==
    IF text = <<>> THEN text
    ELSE IF Head(text) = " " THEN Stripped(Tail(text))
    ELSE IF text[Len(text)] = " " THEN Stripped(SubSeq(text, 1, Len(text) - 1))
    ELSE text

\* the spans of text[i..close-1] between the commas at bracket depth zero,
\* in order; cur is the span read so far
RECURSIVE SpansFrom(_, _, _, _, _)
SpansFrom(text, i, close, depth, cur) ==
    IF i >= close THEN <<Stripped(cur)>>
    ELSE IF text[i] = "," /\ depth = 0
    THEN <<Stripped(cur)>> \o SpansFrom(text, i + 1, close, depth, <<>>)
    ELSE SpansFrom(text, i + 1, close,
                   IF text[i] = "[" THEN depth + 1
                   ELSE IF text[i] = "]" THEN depth - 1 ELSE depth,
                   Append(cur, text[i]))

\* the spans between the commas at depth zero inside the bracket pair of
\* an annotation
TopSpans(t) ==
    SpansFrom(HintText(t), FirstOpen(HintText(t)) + 1,
              MatchingClose(HintText(t), FirstOpen(HintText(t)) + 1, 0), 0, <<>>)

\* annotations with one well-formed bracket pair after a keyword other than
\* Union, whose names are names of nothing with an annotation of its own
SplitsPlainly ==
    CASE world = "nested" -> {1}
      [] world = "tokens" -> {2}
      [] world = "names" -> {3}
      [] world = "api4" \/ world = "api5" -> {2}
      [] OTHER -> {}

KindsOfChildren(t) ==
    [i \in 1..Len(Tree(heap, root[t]).kids) |-> Tree(heap, root[t]).kids[i].type]

\* C24: an empty-brackets node stands for a bracket pair with no name
\* before it and nothing in it, and for nothing else.  The [] of
\* "Callable[[], List]" is one.  The empty span of "List[]" and the empty
\* span after the comma of "List[int,]" are none: List[] has no child and
\* List[int,] the one child int.  The [int, str] of
\* "Callable[[int, str], None]" keeps its children, which are in the
\* rendered text.
C24_EmptyBracketsExactly ==
    [][\A pep484 \in BOOLEAN :
          /\ world = "tokens" /\ Renders("hint", 3, pep484)
                => KindsOfChildren(3) = <<"brackets_node", "typing_node">>
          /\ world = "nested" /\ Renders("hint", 2, pep484)
                => KindsOfChildren(2) = <<>>
          /\ world = "brackets" /\ Renders("hint", 3, pep484)
                => KindsOfChildren(3) = <<"other_node">>
          /\ world = "nested" /\ Renders("hint", 3, FALSE)
                => output' = <<"C", "a", "l", "l", "a", "b", "l", "e", "[", "[", "i", "n", "t", ",", " ", "s", "t", "r", "]", ",", " ", "N", "o", "n", "e", "]">>
      ]_vars

\* C24: "Callable[[int, str], None]" has been parsed into a Callable whose
\* first child is an empty-brackets node and rendered in docstring mode as
\* Callable[[], None].
C24_ChildrenLost ==
    /\ world = "nested"
    /\ status[3] = "parsed" /\ root[3] # 0
    /\ KindsOfChildren(3) = <<"brackets_node", "other_node">>
    /\ last = [atype |-> "hint", u |-> 3, pep484 |-> FALSE]
    /\ output = <<"C", "a", "l", "l", "a", "b", "l", "e", "[", "[", "]", ",", " ", "N", "o", "n", "e", "]">>

\* what is kept of a child of the root of annotation t: its kind and what
\* it refers to, or its name
ChildOf(t, i) ==
    [type |-> Tree(heap, root[t]).kids[i].type,
     ref |-> Tree(heap, root[t]).kids[i].ref,
     name |-> Tree(heap, root[t]).kids[i].name]

EnumRef(ed) == [type |-> "enum_node", ref |-> ed, name |-> <<>>]

Opaque(name) == [type |-> "other_node", ref |-> 0, name |-> name]

\* C25: at each segment an enum of the scope is tried first, then, at the
\* global level only, a mapped type, then a class of the scope.  E names a
\* global enum and a global class: "E" is the enum, and "E.x", x being a
\* class nested in class E, fails.  M names a mapped type annotated "str"
\* and a class: "M" is the mapped type.  X names an enum and a class of class
\* P: "P.X" is the enum.  T being a mapped type, "T.G" is its enum G and
\* "T.Q" fails although a global class Q exists.
C25_EnumMappedTypeClass ==
    world = "kinds"
        => /\ status[1] = "parsed"
                 => /\ root[1] # 0 /\ Len(Tree(heap, root[1]).kids) = 2
                    /\ ChildOf(1, 1) = EnumRef(1)
                    /\ ChildOf(1, 2) = Opaque(<<"s", "t", "r">>)
           /\ status[2] = "parsed"
                 => /\ root[2] # 0 /\ Len(Tree(heap, root[2]).kids) = 2
                    /\ ChildOf(2, 1) = Opaque(<<"E", ".", "x">>)
                    /\ ChildOf(2, 2) = Opaque(<<"T", ".", "Q">>)
           /\ status[3] = "parsed"
                 => /\ root[3] # 0 /\ Len(Tree(heap, root[3]).kids) = 2
                    /\ ChildOf(3, 1) = EnumRef(2)
                    /\ ChildOf(3, 2) = EnumRef(3)

\* C25: the three annotations have been parsed where an enum and a class
\* of the same scope have the same name, and "P.X" has become the enum.
C25_SameNameResolved ==
    /\ world = "kinds" /\ Idle
    /\ Enums(world)[2].pyname = Classes(world)[5].pyname
    /\ Enums(world)[2].ecd = Classes(world)[5].ecd
    /\ \A t \in 1..3 : status[t] = "parsed"
    /\ ChildOf(3, 1) = EnumRef(2)

\* the mapped type that the name about to be looked up resolves to: the
\* name has one segment and is the name of no enum; 0 if there is none
MappedTypeLookedUp ==
    IF /\ LookedUp # <<>>
       /\ typingModule(LookedUp) = <<>>
       /\ Strchr(LookedUp, 1) = 0
       /\ lookupEnum(world, LookedUp, 0, 0) = 0
    THEN lookupMappedType(world, LookedUp)
    ELSE 0

\* the annotation of mapped type mtd for the direction of the parse
AnnotationOf(mtd) ==
    IF Top.out THEN MappedTypes(world)[mtd].typehint_out
    ELSE MappedTypes(world)[mtd].typehint_in

\* C26: when lookupType returns at once with no node for a name that
\* resolves to a mapped type, the annotation of the mapped type for the
\* direction is being parsed.
C26_OmittedOnlyInProgress ==
    [][MappedTypeLookedUp # 0 /\ stack' = Below /\ ret'.ok /\ ret'.node = 0
          => /\ AnnotationOf(MappedTypeLookedUp) # 0
             /\ status[AnnotationOf(MappedTypeLookedUp)] = "being_parsed"]_vars

\* C26: "Dict[str, T]", T being a mapped type with no annotation, has
\* been parsed into a Dict with the one child str and rendered in docstring
\* mode as Dict[str], while no annotation was being parsed.
C26_OmittedWithoutAnnotation ==
    /\ world = "omitted" /\ Idle
    /\ MappedTypes(world)[1].pyname = <<"T">>
    /\ MappedTypes(world)[1].typehint_in = 0
    /\ \A t \in ThdIds : status[t] # "being_parsed"
    /\ root[1] # 0 /\ Len(ChildrenOf(heap, root[1])) = 1
    /\ last = [atype |-> "hint", u |-> 1, pep484 |-> FALSE]
    /\ output = <<"D", "i", "c", "t", "[", "s", "t", "r", "]">>

\* the classes whose bodies are being written: the class whose end is the
\* next one and the classes that enclose it
OpenClasses ==
    IF written < Len(pyiModule(world, mod))
       /\ Iffs(world)[pyiModule(world, mod)[written + 1]].type = "class"
    THEN Enclosing(ClassOf(pyiModule(world, mod)[written + 1]))
    ELSE {}

\* class cd is one of the classes cds or is nested in one of them
RECURSIVE WithinOneOf(_, _)
WithinOneOf(cd, cds) ==
    IF cd = 0 THEN FALSE
    ELSE cd \in cds \/ WithinOneOf(Classes(world)[cd].ecd, cds)

\* C27: a class is appended to the ledger only once the classes nested in
\* it are in the ledger, and a PEP 484 reference to a class whose body is
\* being written, or to a class nested in such a class, is rendered with
\* quotes.
C27_QuotedInOwnBody ==
    [][/\ \A iff \in 1..Len(Iffs(world)) :
             ~InLedger(iff) /\ defined' = Append(defined, iff)
                 => NestedInLedger(iff)
       /\ \A cd \in 1..Len(Classes(world)) :
             /\ Renders("class_type", cd, TRUE)
             /\ Implemented(cd)
             /\ ~Classes(world)[Implementation(cd)].external
             /\ ~OtherModule(Classes(world)[Implementation(cd)].iff)
             /\ WithinOneOf(Implementation(cd), OpenClasses)
             => ~Unquoted(output')
      ]_vars

\* C27: at revision 4 the body of class V is being written for the second
\* time, V is in the ledger since the first time, and a reference to V has
\* been rendered in it without quotes.
C27_UnquotedInOwnBody ==
    /\ world = "api4"
    /\ written = 1 /\ defined = <<1>>
    /\ pyiModule(world, mod)[2] = 1
    /\ 1 \in OpenClasses
    /\ last = [atype |-> "class_type", u |-> 1, pep484 |-> TRUE]
    /\ output = <<"V">>

\* C28: whatever was resolved before, the annotations of B ("List[C]") and
\* of C ("Tuple[B, int]") end with the same cached trees, and the arguments
\* annotated "B" and "C" render the same text: the trees and the text that
\* resolving B first gives.
C28_OrderIndependent ==
    [][world = "recursive"
         => /\ Renders("hint", 5, FALSE)
                  => /\ output' = <<"L", "i", "s", "t", "[", "T", "u", "p", "l", "e", "[", "B", ",", " ", "i", "n", "t", "]", "]">>
                     /\ Rendered(Tree(heap, root[2]), FALSE) = output'
            /\ Renders("hint", 6, FALSE)
                  => /\ output' = <<"T", "u", "p", "l", "e", "[", "B", ",", " ", "i", "n", "t", "]">>
                     /\ Rendered(Tree(heap, root[3]), FALSE) = output'
      ]_vars

\* C28: the argument annotated "C" was resolved before the one annotated
\* "B": the cached tree of B's annotation is List[C] and "B" has been rendered
\* as List[C], not as List[Tuple[B, int]].
C28_OtherOrderOtherTree ==
    /\ world = "recursive" /\ Idle
    /\ status[5] = "parsed" /\ status[6] = "parsed"
    /\ Rendered(Tree(heap, root[2]), FALSE) = <<"L", "i", "s", "t", "[", "C", "]">>
    /\ Rendered(Tree(heap, root[3]), FALSE) = <<"T", "u", "p", "l", "e", "[", "L", "i", "s", "t", "[", "C", "]", ",", " ", "i", "n", "t", "]">>
    /\ last = [atype |-> "hint", u |-> 5, pep484 |-> FALSE]
    /\ output = <<"L", "i", "s", "t", "[", "C", "]">>

\* the number of declarations written so far of the class or mapped type
\* of interface file iff
TimesWritten(iff) ==
    Cardinality({i \in 1..written : pyiModule(world, mod)[i] = iff})

\* C29: while a module is written every class declaration that is ended
\* is the first one of its class, and it is a declaration of the default
\* implementation of a class of the module; its interface file is not in
\* the ledger yet and is appended to it.
C29_EmittedOnce ==
    [][written' = written + 1
          => /\ TimesWritten(pyiModule(world, mod)[written + 1]) = 0
             /\ \E iff \in 1..Len(Iffs(world)) :
                   Selected(iff) = pyiModule(world, mod)[written + 1]
             /\ ~InLedger(pyiModule(world, mod)[written + 1])
             /\ defined' = Append(defined, pyiModule(world, mod)[written + 1])
      ]_vars

\* C29: at revision 4 two declarations of class V, the default
\* implementation of both alternatives of V, have been written, and the
\* ledger holds V once.
C29_WrittenTwice ==
    /\ world = "api4"
    /\ Selected(1) = 1 /\ Selected(2) = 1
    /\ written >= 2
    /\ TimesWritten(1) = 2
    /\ Cardinality({i \in 1..Len(defined) : defined[i] = 1}) = 1

\* the disconnect that is being made has the arguments of the connect that
\* was made last, which was to a Python signal and succeeded
DisconnectsLastConnect ==
    /\ call.op = "connect" /\ call.result = "Py_True"
    /\ ~isQtSignal(call.sig)
    /\ call'.op = "disconnect"
    /\ call'.txObj = call.txObj /\ call'.sig = call.sig
    /\ call'.rxObj = call.rxObj /\ call'.slot = call.slot

\* the disconnect that is being made has left the receiver list alone or
\* has unlinked one entry of it, an entry isSameSlot accepts
RemovesOneSame ==
    \/ RxList(pySigList'[call'.txObj], call'.sig) = call'.before
    \/ \E i \in 1..Len(call'.before) :
          /\ isSameSlot(call'.before[i], call'.rxObj, call'.slot)
          /\ RxList(pySigList'[call'.txObj], call'.sig)
                = Unlinked(call'.before, i)

\* C30: for a Python signal a disconnect that follows a successful connect
\* with the same transmitter, signal, receiver and slot leaves the receiver
\* list of the signal as it was before the connect, whatever kind of slot was
\* saved; and every disconnect from a Python signal removes at most one
\* entry, one that isSameSlot accepts.
C30_ConnectThenDisconnect ==
    [][/\ DisconnectsLastConnect
          => RxList(pySigList'[call.txObj], call.sig) = call.before
       /\ (call'.op = "disconnect" /\ call' # call /\ ~isQtSignal(call'.sig))
          => RemovesOneSame
      ]_vars

\* C30: the Qt slot "1f()" of w was connected to the Python signal "s" and
\* a disconnect with the same arguments has returned: the receiver list
\* still holds the entry the connect saved, whose name starts with NUL.
C30_QtSlotStaysConnected ==
    /\ call.op = "disconnect" /\ call.result = "Py_True"
    /\ call.txObj = "tx" /\ call.sig = <<"s">> \o <<NUL>>
    /\ call.rxObj = "w" /\ call.slot = <<"1", "f", "(", ")">> \o <<NUL>>
    /\ call.before = <<sip_api_save_slot("w", <<"1", "f", "(", ")">> \o <<NUL>>, "none").sp>>
    /\ RxList(pySigList["tx"], <<"s">> \o <<NUL>>) = call.before
    /\ call.before[1].name[1] = NUL
    /\ ~isSameSlot(call.before[1], "w", <<"1", "f", "(", ")">> \o <<NUL>>)
====
